---- MODULE Spec2Model ----
(***************************************************************************)
(* TitanNVR backend: the stream manager (relay synchronisation and the     *)
(* connection probe), the camera CRUD handlers, the detection-engine       *)
(* configuration sync and the recording scheduler, as state machines.      *)
(*                                                                         *)
(* The relay (Go2RTC) and the detection engine (Frigate) are external      *)
(* services: every request to them has a nondeterministic outcome.         *)
(***************************************************************************)
EXTENDS Integers, Sequences, FiniteSets, TLC

VARIABLES
    active,     \* relay: the live stream catalog (GET /api/streams), id -> source
    durable,    \* relay: the persisted "streams" section (GET/PATCH /api/config)
    sm,         \* per caller: the register_stream / unregister_stream call in progress
    pr,         \* per caller: the test_stream_connection call in progress
    ncalls,     \* stream manager calls started so far by the test callers
    store,      \* camera table, committed rows: id -> camera
    sess,       \* camera table as the request's open transaction sees it
    h,          \* the CRUD request being handled (cameras router)
    bg,         \* background tasks (sync_all_to_frigate) the request has queued
    ap,         \* per trigger: the sync_all_to_frigate run in progress
    doc,        \* the detection engine's configuration file
    applies,    \* sync_all_to_frigate runs started
    restarts,   \* restart requests sent to the detection engine
    tk,         \* the recording scheduler: its loop and the check in progress
    pure        \* a function called on its own: the arguments and the results so far

relayVars == <<active, durable>>
crudVars == <<store, sess, h, bg>>
applyVars == <<ap, doc, applies, restarts>>
vars == <<active, durable, sm, pr, ncalls, store, sess, h, bg, ap, doc, applies, restarts, tk, pure>>

\* Everything but the relay and the stream manager call records.
outsideSm == <<pr, ncalls, crudVars, applyVars, tk, pure>>
\* Everything but the relay and the probe call records.
outsidePr == <<sm, ncalls, crudVars, applyVars, tk, pure>>

----------------------------------------------------------------------------
(* Bounds *)

\* Stream manager calls started in one behaviour of SpecSync.
MaxCalls == 3

\* Probes started in one behaviour of SpecProbe.
MaxProbes == 2

\* Producers the relay lists for one stream.
MaxProducers == 2

\* Cameras (or ids) in one bulk request.
MaxBulk == 2

\* Cameras in the list given to generate_config on its own.
MaxCameras == 2

\* Slots in the list given to _find_applicable_mode on its own.
MaxSlots == 2

\* Schedule checks started in one behaviour of SpecTick.
MaxTicks == 2

\* Weekdays run from 0 to MaxDay, times of day from 0 to MaxTime.
MaxDay == 1
MaxTime == 2

----------------------------------------------------------------------------
(* Values *)

\* Concurrent callers of the stream manager (request handlers are coroutines).
Procs == {"p1", "p2"}

\* No function is called on its own.
PureIdle == [args |-> <<>>, out |-> <<>>]

\* Python None / empty string (both falsy).
None == <<>>

\* An empty dict.
EmptyDict == [x \in {} |-> None]

\* Camera names are strings, modelled as sequences of characters.
CameraNames == {<<"A", " ", "b">>, <<"a", "-", "b">>, <<"C">>}

\* Stream URLs: <<scheme prefix, rest>>.
URIs == {<<"rtsp://", "cam">>, <<"http://", "cam">>}

\* The inputs of the direct RegisterCamera / UnregisterCamera calls.
SyncNames == {<<"A", " ", "b">>}
SubURIs == {None, <<"rtsp://", "low">>}

\* How one HTTP request to an external service ends: a 2xx answer, an answer
\* with an error status, a refused connection (httpx.ConnectError), or a
\* timeout (httpx.TimeoutException).
Outcomes == {"ok", "status_err", "refused", "timeout"}

\* A read can also be answered 200 with a body the parser rejects
\* (yaml.safe_load / response.json raise).
ReadOutcomes == Outcomes \cup {"garbled"}

\* The outcomes in which the call raises instead of returning a response.
Raises(o) == o \in {"refused", "timeout", "garbled"}

\* Whether the service executed a mutating request: it did when it answered
\* 2xx; when the client timed out it may or may not have (late).
Applied(o, late) == o = "ok" \/ (o = "timeout" /\ late)

\* The values of `late` worth distinguishing for an outcome.
Lates(o) == IF o = "timeout" THEN BOOLEAN ELSE {FALSE}

\* dict[k] = v
Put(f, k, v) == [x \in (DOMAIN f) \cup {k} |-> IF x = k THEN v ELSE f[x]]

\* dict.pop(k, None) for every k of K
Drop(f, K) == [x \in (DOMAIN f) \ K |-> f[x]]

----------------------------------------------------------------------------
(* StreamManager: pure helpers *)

\* str.lower() on the characters the names use.
Lower(c) == CASE c = "A" -> "a" [] c = "B" -> "b" [] c = "C" -> "c" [] OTHER -> c

\* str.replace(old, new) for single characters.
Replace(s, old, new) == [i \in 1..Len(s) |-> IF s[i] = old THEN new ELSE s[i]]

_normalize_name(name) ==
    Replace(Replace([i \in 1..Len(name) |-> Lower(name[i])], " ", "_"), "-", "_")

\* f"{normalized_name}_main" / f"{normalized_name}_sub"
StreamId(name, tier) == Append(_normalize_name(name), IF tier = "main" THEN "_main" ELSE "_sub")

_convert_url_for_go2rtc(url) ==
    IF url[1] \in {"exec:", "ffmpeg:"} THEN url
    ELSE IF url[1] \in {"rtsp://", "rtsps://"} THEN url
    ELSE IF url[1] \in {"http://", "https://"}
         THEN <<"exec:", "ffmpeg -c:v libx264 -preset superfast -crf 23 -maxrate 2M -bufsize 4M -g 30", url[1], url[2]>>
    ELSE url

\* _get_optimized_ffmpeg_cmd: the transcode pipeline of a quality tier.
_get_optimized_ffmpeg_cmd(url, quality) ==
    IF quality = "sub"
    THEN <<"exec:", "ffmpeg -c:v libx264 -preset ultrafast -vf scale=640:-2 -crf 28 -maxrate 500k -bufsize 1M -g 30", url[1], url[2]>>
    ELSE <<"exec:", "ffmpeg -c:v libx264 -preset superfast -crf 23 -maxrate 4M -bufsize 8M -g 30", url[1], url[2]>>

\* _add_stream_via_api: True on status 200/201, False on any other status
\* and on every exception.
AddStreamSuccess(o) == o = "ok"

\* _remove_stream_via_api: True on status 200/204, False otherwise.
RemoveStreamSuccess(o) == o = "ok"

\* register_stream: the status recorded for a target.
RegisterStatus(success) == IF success THEN "active" ELSE "failed"

\* unregister_stream: the status recorded for a target.
UnregisterStatus(deleted) == IF deleted THEN "removed" ELSE "not_found"

\* _get_config: the dict returned for a response (status 200: the parsed
\* document; any other status: {}), then .get("streams", {}).
GetConfigStreams(o, persisted) == IF o = "ok" THEN persisted ELSE EmptyDict

----------------------------------------------------------------------------
(* StreamManager: test_stream_connection, one relay request per step.     *)

\* The dicts test_stream_connection returns.
Failure(error) == [success |-> FALSE, error |-> error, recv_bytes |-> 0]
Success(recv) == [success |-> TRUE, error |-> "", recv_bytes |-> recv]

\* No probe in progress. ret is the value of the return statement that was
\* executed, kept while the finally block runs. verdict, refused_only and
\* cleanup record the call: the value the probe steps decided, whether every
\* request so far was refused, and how the cleanup ended; requests counts
\* the requests the call has sent to the relay; raised is the outcome of the
\* request whose exception ended the try block; read tells whether the
\* catalog was read, and entry is what it said of the temporary id; answered
\* tells whether the relay has answered every request so far with 200.
PrIdle ==
    [pc |-> "idle", temp_id |-> None, url |-> None, cur |-> EmptyDict,
     ret |-> Failure("none"), result |-> Failure("none"),
     verdict |-> Failure("none"), refused_only |-> TRUE, cleanup |-> "none",
     requests |-> 0, raised |-> "none", read |-> FALSE,
     entry |-> [listed |-> FALSE, producers |-> <<>>], answered |-> TRUE]

\* temp_id = f"probe_temp_{uuid.uuid4().hex[:8]}": the n-th fresh id.
TempId(n) == <<"probe_temp_", ToString(n)>>

\* test_stream_connection, lines 456-462.
test_stream_connection(stream_url, n) ==
    [PrIdle EXCEPT !.pc = "reg_get", !.temp_id = TempId(n), !.url = stream_url]

\* The except clauses, lines 534-552: the dict returned for an exception.
ExceptResultMut(o) ==
    IF o \in {"timeout", "refused"} THEN Failure("Timeout de conexion")
    ELSE Failure("Error inesperado")
ExceptResult(o) ==
    IF o = "timeout" THEN Failure("Timeout de conexion")
    ELSE IF o = "refused" THEN Failure("Error de red")
    ELSE Failure("Error inesperado")

\* The producers the relay can list for a stream: each a received byte count.
ProducerLists ==
    UNION {[1..n -> {0, 5}] : n \in 0..MaxProducers}

\* The first producer with recv > 0, or 0 when there is none (lines 514-525).
RECURSIVE FirstReceiving(_)
FirstReceiving(producers) ==
    IF producers = <<>> THEN 0
    ELSE IF Head(producers) > 0 THEN Head(producers)
    ELSE FirstReceiving(Tail(producers))

\* What the catalog can say of one stream id: not listed, or listed with
\* its producers.
NotListed == [listed |-> FALSE, producers |-> <<>>]
CatalogEntries == {NotListed} \cup {[listed |-> TRUE, producers |-> ps] : ps \in ProducerLists}

\* Lines 493-532: the dict returned for the catalog that was read.
ClassifyCatalogMut(entry) ==
    IF ~entry.listed THEN Failure("Stream not found after registration")
    ELSE IF entry.producers = <<>> THEN Failure("No se pudo conectar al stream")
    ELSE Success(FirstReceiving(entry.producers))
ClassifyCatalog(entry) ==
    IF ~entry.listed THEN Failure("Stream not found after registration")
    ELSE IF entry.producers = <<>> THEN Failure("No se pudo conectar al stream")
    ELSE IF FirstReceiving(entry.producers) > 0 THEN Success(FirstReceiving(entry.producers))
    ELSE Failure("Stream conectado pero sin datos")

\* A return statement (or except clause) of the try block ran: the value is
\* kept and the finally block starts.
ToCleanup(rec, value) ==
    [rec EXCEPT !.ret = value, !.verdict = value, !.cur = EmptyDict, !.pc = "clean_get"]

\* Lines 466-468: read the configuration and add the temporary stream.
probe_register_get(p) ==
    /\ pr[p].pc = "reg_get"
    /\ \E o \in ReadOutcomes :
         pr' = [pr EXCEPT ![p] =
                  LET rec == [pr[p] EXCEPT !.refused_only = @ /\ o = "refused", !.requests = @ + 1,
                                           !.answered = @ /\ o = "ok"]
                  IN IF Raises(o) THEN ToCleanup([rec EXCEPT !.raised = o], ExceptResult(o))
                     ELSE [rec EXCEPT !.cur = Put(GetConfigStreams(o, durable), rec.temp_id, rec.url),
                                      !.pc = "reg_patch"]]
    /\ UNCHANGED <<pure, tk, relayVars, outsidePr>>

\* Lines 471-477: PATCH the streams with the temporary one added.
probe_register_patch(p) ==
    /\ pr[p].pc = "reg_patch"
    /\ \E o \in Outcomes : \E late \in Lates(o) :
         /\ durable' = IF Applied(o, late) THEN pr[p].cur ELSE durable
         /\ pr' = [pr EXCEPT ![p] =
                     LET rec == [pr[p] EXCEPT !.refused_only = @ /\ o = "refused", !.requests = @ + 1,
                                           !.answered = @ /\ o = "ok"]
                     IN IF Raises(o) THEN ToCleanup([rec EXCEPT !.raised = o], ExceptResult(o))
                        ELSE IF o # "ok"
                             THEN ToCleanup(rec, Failure("Failed to register test stream in Go2RTC"))
                        ELSE [rec EXCEPT !.cur = EmptyDict, !.pc = "status"]]
    /\ UNCHANGED <<active, outsidePr>>

\* Lines 480-532: sleep, then read the catalog (GET /api/streams) and decide.
\* Whether the relay lists the temporary stream, and with which producers,
\* is the relay's and the camera's doing.
probe_status(p) ==
    /\ pr[p].pc = "status"
    /\ \E o \in ReadOutcomes :
         \E entry \in (IF o = "ok" THEN CatalogEntries ELSE {NotListed}) :
           pr' = [pr EXCEPT ![p] =
                    LET rec == [pr[p] EXCEPT !.refused_only = @ /\ o = "refused", !.requests = @ + 1,
                                           !.answered = @ /\ o = "ok"]
                    IN IF Raises(o) THEN ToCleanup([rec EXCEPT !.raised = o], ExceptResult(o))
                       ELSE IF o # "ok" THEN ToCleanup(rec, Failure("Go2RTC not responding"))
                       ELSE ToCleanup([rec EXCEPT !.read = TRUE, !.entry = entry],
                                      ClassifyCatalog(entry))]
    /\ UNCHANGED <<pure, tk, relayVars, outsidePr>>

\* The finally block, lines 553-563, has no return statement and catches
\* every exception: the value to return stays the one the try block chose.
CleanupReturnMut(ret, how) ==
    IF how \in {"raised", "rejected"} THEN Failure("Cleanup failed") ELSE ret
CleanupReturn(ret, how) == ret

\* Lines 556-558: read the configuration again; temp_id in it?
probe_cleanup_get(p) ==
    /\ pr[p].pc = "clean_get"
    /\ \E o \in ReadOutcomes :
         pr' = [pr EXCEPT ![p] =
                  LET rec == [pr[p] EXCEPT !.refused_only = @ /\ o = "refused", !.requests = @ + 1,
                                           !.answered = @ /\ o = "ok"]
                      streams == GetConfigStreams(o, durable)
                  IN IF Raises(o)
                     THEN [rec EXCEPT !.cleanup = "raised", !.pc = "return",
                                      !.ret = CleanupReturn(rec.ret, "raised")]
                     ELSE IF rec.temp_id \in DOMAIN streams
                          THEN [rec EXCEPT !.cur = Drop(streams, {rec.temp_id}), !.pc = "clean_patch"]
                     ELSE [rec EXCEPT !.cleanup = "skipped", !.pc = "return",
                                      !.ret = CleanupReturn(rec.ret, "skipped")]]
    /\ UNCHANGED <<pure, tk, relayVars, outsidePr>>

\* Lines 559-561: PATCH the streams without temp_id; the result of the
\* PATCH is not looked at.
probe_cleanup_patch(p) ==
    /\ pr[p].pc = "clean_patch"
    /\ \E o \in Outcomes : \E late \in Lates(o) :
         LET how == IF Raises(o) THEN "raised" ELSE IF o = "ok" THEN "ok" ELSE "rejected"
         IN /\ durable' = IF Applied(o, late) THEN pr[p].cur ELSE durable
            /\ pr' = [pr EXCEPT ![p].refused_only = @ /\ o = "refused",
                                ![p].requests = @ + 1,
                                ![p].answered = @ /\ o = "ok",
                                ![p].cleanup = how,
                                ![p].cur = EmptyDict,
                                ![p].ret = CleanupReturn(@, how),
                                ![p].pc = "return"]
    /\ UNCHANGED <<active, outsidePr>>

\* The dict check_stream_status returns, and an exception that leaves it.
Status(status) == [status |-> status, raised |-> FALSE]
Escaped == [status |-> "none", raised |-> TRUE]

\* check_stream_status, lines 381-411, for the way GET /api/streams ended and
\* what the catalog says of the camera's sub id. Only httpx.RequestError is
\* caught: the exception of response.json() on a body that is not JSON
\* leaves the call.
check_stream_status(o, entry) ==
    IF o \in {"refused", "timeout"} THEN Status("unknown")
    ELSE IF o = "status_err" THEN Status("unknown")
    ELSE IF o = "garbled" THEN Escaped
    ELSE IF ~entry.listed THEN Status("offline")
    ELSE IF entry.producers = <<>> THEN Status("offline")
    ELSE IF FirstReceiving(entry.producers) > 0 THEN Status("online")
    ELSE Status("connecting")

\* The call returns the kept value.
probe_return(p) ==
    /\ pr[p].pc = "return"
    /\ pr' = [pr EXCEPT ![p].result = pr[p].ret, ![p].pc = "done"]
    /\ UNCHANGED <<pure, tk, relayVars, outsidePr>>

----------------------------------------------------------------------------
(* StreamManager: register_stream / unregister_stream, one relay request   *)
(* per step.                                                               *)

\* No call in progress. hot, persisted and attempted record what each step
\* of the call met (hot: the outcome of the PUT/DELETE per target; persisted:
\* the value of the durable write per target; attempted: the steps begun).
\* answered tells whether the relay has answered every request of the call
\* so far as a working relay does; before is the relay as the call found it;
\* raw holds the "url" entries of the report (the URLs as they were given).
SmIdle ==
    [op |-> "none", pc |-> "idle", name |-> None,
     url |-> [t \in {"main", "sub"} |-> None],
     cur |-> EmptyDict,
     hot |-> [t \in {"main", "sub"} |-> "none"],
     persisted |-> [t \in {"main", "sub"} |-> FALSE],
     attempted |-> {},
     answered |-> TRUE,
     before |-> [active |-> EmptyDict, durable |-> EmptyDict],
     raw |-> [t \in {"main", "sub"} |-> None],
     result |-> [main |-> "none", sub |-> "none"]]

TierOf(pc) == IF pc \in {"put_main", "del_main", "get_main", "patch_main"} THEN "main" ELSE "sub"

\* register_stream, lines 240-257: ids, url conversion, the pending report.
register_stream(name, main_stream_url, sub_stream_url) ==
    LET sub_url == IF sub_stream_url # None THEN sub_stream_url ELSE main_stream_url
    IN [SmIdle EXCEPT !.op = "register", !.pc = "put_main", !.name = name,
                      !.url = [t \in {"main", "sub"} |->
                                 IF t = "main" THEN _convert_url_for_go2rtc(main_stream_url)
                                 ELSE _convert_url_for_go2rtc(sub_url)],
                      !.raw = [t \in {"main", "sub"} |->
                                 IF t = "main" THEN main_stream_url ELSE sub_url],
                      !.result = [main |-> "pending", sub |-> "pending"]]

\* Where register_stream goes after a hot-reload call: on to the next step,
\* whatever the call returned.
AfterPutMut(pc, success) ==
    IF ~success THEN "return" ELSE IF pc = "put_main" THEN "put_sub" ELSE "get_main"
AfterPut(pc, success) == IF pc = "put_main" THEN "put_sub" ELSE "get_main"

\* _add_stream_via_api for the main, then the sub target (PUT /api/streams).
\* The statuses of lines 264-274 are recorded with each call's result.
_add_stream_via_api(p) ==
    /\ sm[p].pc \in {"put_main", "put_sub"}
    /\ \E o \in Outcomes : \E late \in Lates(o) :
         LET t == TierOf(sm[p].pc)
             id == StreamId(sm[p].name, t)
             success == AddStreamSuccess(o)
         IN /\ active' = IF Applied(o, late) THEN Put(active, id, sm[p].url[t]) ELSE active
            /\ sm' = [sm EXCEPT ![p].hot[t] = o,
                                ![p].attempted = @ \cup {<<"hot", t>>},
                                ![p].answered = @ /\ o = "ok",
                                ![p].result[t] = RegisterStatus(success),
                                ![p].pc = AfterPut(sm[p].pc, success)]
    /\ UNCHANGED <<durable, outsideSm>>

\* Where register_stream goes after a durable write returned ok (True/False).
AfterPersist(t, ok) == IF t = "main" THEN "get_sub" ELSE "return"

\* _persist_stream_config, lines 196-198: read the configuration and add the
\* stream. An exception ends this durable write with False.
_persist_stream_config_get(p) ==
    /\ sm[p].pc \in {"get_main", "get_sub"}
    /\ \E o \in ReadOutcomes :
         LET t == TierOf(sm[p].pc)
         IN sm' = [sm EXCEPT ![p].attempted = @ \cup {<<"durable", t>>},
                             ![p].answered = @ /\ o = "ok",
                             ![p].cur = IF Raises(o) THEN EmptyDict
                                        ELSE Put(GetConfigStreams(o, durable), StreamId(sm[p].name, t), sm[p].url[t]),
                             ![p].persisted[t] = FALSE,
                             ![p].pc = IF Raises(o) THEN AfterPersist(t, FALSE)
                                       ELSE IF t = "main" THEN "patch_main" ELSE "patch_sub"]
    /\ UNCHANGED <<pure, tk, relayVars, outsideSm>>

\* _persist_stream_config, line 199: PATCH the whole "streams" section.
_persist_stream_config_patch(p) ==
    /\ sm[p].pc \in {"patch_main", "patch_sub"}
    /\ \E o \in Outcomes : \E late \in Lates(o) :
         LET t == TierOf(sm[p].pc)
         IN /\ durable' = IF Applied(o, late) THEN sm[p].cur ELSE durable
            /\ sm' = [sm EXCEPT ![p].persisted[t] = (o = "ok"),
                                ![p].answered = @ /\ o = "ok",
                                ![p].cur = EmptyDict,
                                ![p].pc = AfterPersist(t, o = "ok")]
    /\ UNCHANGED <<active, outsideSm>>

\* unregister_stream, lines 302-306.
unregister_stream(name) ==
    [SmIdle EXCEPT !.op = "unregister", !.pc = "del_main", !.name = name]

\* A working relay answers the DELETE of a stream it has with 2xx, and the
\* DELETE of a stream it does not have with 2xx or with an error status.
DeleteAnswered(o, present) == o = "ok" \/ (~present /\ o = "status_err")

\* unregister_stream, lines 316-318: the streams section without both ids.
RemainingStreamsMut(current_streams, name) == Drop(current_streams, {StreamId(name, "main")})
RemainingStreams(current_streams, name) ==
    Drop(current_streams, {StreamId(name, "main"), StreamId(name, "sub")})

\* _remove_stream_via_api for the main, then the sub target (DELETE /api/streams).
\* The statuses of lines 325-326 are recorded with each call's result.
_remove_stream_via_api(p) ==
    /\ sm[p].pc \in {"del_main", "del_sub"}
    /\ \E o \in Outcomes : \E late \in Lates(o) :
         LET t == TierOf(sm[p].pc)
             id == StreamId(sm[p].name, t)
         IN /\ active' = IF Applied(o, late) THEN Drop(active, {id}) ELSE active
            /\ sm' = [sm EXCEPT ![p].hot[t] = o,
                                ![p].attempted = @ \cup {<<"hot", t>>},
                                ![p].answered = @ /\ DeleteAnswered(o, id \in DOMAIN active),
                                ![p].result[t] = UnregisterStatus(RemoveStreamSuccess(o)),
                                ![p].pc = IF t = "main" THEN "del_sub" ELSE "unreg_get"]
    /\ UNCHANGED <<durable, outsideSm>>

\* unregister_stream, lines 315-318: read the configuration, pop both ids.
unregister_stream_get(p) ==
    /\ sm[p].pc = "unreg_get"
    /\ \E o \in ReadOutcomes :
         sm' = [sm EXCEPT ![p].attempted = @ \cup {<<"durable", "main">>, <<"durable", "sub">>},
                          ![p].answered = @ /\ o = "ok",
                          ![p].cur = IF Raises(o) THEN EmptyDict
                                     ELSE RemainingStreams(GetConfigStreams(o, durable), sm[p].name),
                          ![p].pc = IF Raises(o) THEN "return" ELSE "unreg_patch"]
    /\ UNCHANGED <<pure, tk, relayVars, outsideSm>>

\* unregister_stream, line 319: PATCH the remaining streams; its result is
\* not looked at and an exception is logged.
unregister_stream_patch(p) ==
    /\ sm[p].pc = "unreg_patch"
    /\ \E o \in Outcomes : \E late \in Lates(o) :
         /\ durable' = IF Applied(o, late) THEN sm[p].cur ELSE durable
         /\ sm' = [sm EXCEPT ![p].persisted = [t \in {"main", "sub"} |-> o = "ok"],
                             ![p].answered = @ /\ o = "ok",
                             ![p].cur = EmptyDict,
                             ![p].pc = "return"]
    /\ UNCHANGED <<active, outsideSm>>

\* register_stream line 280 / unregister_stream lines 324-327: the report
\* is handed to the caller.
stream_call_return(p) ==
    /\ sm[p].pc = "return"
    /\ sm' = [sm EXCEPT ![p].pc = "done"]
    /\ UNCHANGED <<pure, tk, relayVars, outsideSm>>

----------------------------------------------------------------------------
(* Camera store and detection-engine configuration *)

\* RecordingMode (models/camera.py).
RecordingModes == {"continuous", "motion", "events", "none"}

\* Column defaults of Camera.
DefaultRetentionDays == 7
DefaultEventRetentionDays == 14

\* A Camera row as the handlers and the config generator read it.
Camera(name, main, sub, is_active, mode) ==
    [name |-> name, main_stream_url |-> main, sub_stream_url |-> sub,
     is_active |-> is_active, recording_mode |-> mode,
     retention_days |-> DefaultRetentionDays,
     event_retention_days |-> DefaultEventRetentionDays,
     schedules |-> <<>>, updated_at |-> 0]

\* updated_at has onupdate=func.now(): every UPDATE of the row sets it to
\* the time of the statement, later than the time the row holds.
onupdate(camera) == [camera EXCEPT !.updated_at = @ + 1]

\* The largest element of a non-empty set of numbers.
Max(S) == CHOOSE x \in S : \A y \in S : y <= x

\* The autoincrement primary key of the next row of a table.
NewId(table) == IF DOMAIN table = {} THEN 1 ELSE Max(DOMAIN table) + 1

\* The rows of a table in primary-key order.
RECURSIVE Rows(_)
Rows(table) ==
    IF DOMAIN table = {} THEN <<>>
    ELSE LET last == Max(DOMAIN table)
         IN Append(Rows([i \in (DOMAIN table) \ {last} |-> table[i]]), table[last])

\* RECORDING_MODE_MAP.get(recording_mode, "motion")
RECORDING_MODE_MAPMut(mode) == IF mode = "continuous" THEN "all" ELSE "motion"
RECORDING_MODE_MAP(mode) ==
    CASE mode = "continuous" -> "all"
      [] mode = "motion" -> "motion"
      [] mode = "events" -> "active_objects"
      [] OTHER -> "motion"

\* camera.get(key, default) on a camera dict.
CameraGet(camera, key, default) == IF key \in DOMAIN camera THEN camera[key] ELSE default

\* FrigateConfigGenerator._generate_camera_config: the record section, for
\* the arguments generate_config reads from the camera dict (lines 258-262).
_generate_camera_config(camera) ==
    [enabled |-> TRUE,
     record |-> [enabled |-> TRUE,
                 days |-> CameraGet(camera, "retention_days", DefaultRetentionDays),
                 mode |-> RECORDING_MODE_MAP(CameraGet(camera, "recording_mode", "motion")),
                 event_days |-> CameraGet(camera, "event_retention_days", DefaultEventRetentionDays)]]

\* d[key] = value on an insertion-ordered dict (a sequence of pairs): a new
\* key goes last, an existing key keeps its place.
DictSet(d, key, value) ==
    IF \E i \in 1..Len(d) : d[i][1] = key
    THEN [i \in 1..Len(d) |-> IF d[i][1] = key THEN <<key, value>> ELSE d[i]]
    ELSE Append(d, <<key, value>>)

\* FrigateConfigGenerator.generate_config, the loop of lines 240-270 over
\* the cameras in the order given.
RECURSIVE GenerateCameras(_, _)
GenerateCameras(cameras, acc) ==
    IF cameras = <<>> THEN acc
    ELSE LET camera == Head(cameras)
         IN IF ~camera.is_active \/ camera.name = None
            THEN GenerateCameras(Tail(cameras), acc)
            ELSE GenerateCameras(Tail(cameras),
                                 DictSet(acc, _normalize_name(camera.name), _generate_camera_config(camera)))

\* FrigateConfigGenerator.generate_config: the document (its per-camera part;
\* the base template is the same in every document).
generate_config(cameras) == [written |-> "complete", cameras |-> GenerateCameras(cameras, <<>>)]

\* No file yet, and a file that was truncated and not, or not yet, written
\* to the end.
NoDocument == [written |-> "never", cameras |-> <<>>]
PartialDocument == [written |-> "partial", cameras |-> <<>>]

\* How write_config can end: written; failed before the file was opened
\* (mkdir, yaml.dump); failed after write_text truncated the file.
WriteOutcomes == {"ok", "failed_before", "failed_during"}

----------------------------------------------------------------------------
(* sync_all_to_frigate (cameras router) -> sync_frigate_config ->          *)
(* FrigateConfigGenerator.sync_cameras                                     *)

\* The triggers of a sync: a request's background task, the scheduler, the
\* manual sync endpoint (POST /frigate/sync), the startup of the application.
Triggers == {"crud", "tick", "sync", "startup"}

\* No sync running. status and restart are the fields of the result; wrote
\* and posted remember how write_config and POST /api/restart ended.
ApIdle ==
    [pc |-> "idle", cameras |-> <<>>, status |-> "none", restart |-> "none",
     wrote |-> "none", posted |-> "none"]

\* sync_all_to_frigate, lines 30-54: read every camera in a session of its
\* own; an exception of the read is logged and ends the sync.
sync_all_to_frigate(a) ==
    /\ ap[a].pc = "read"
    /\ \E o \in {"ok", "raise"} :
         ap' = IF o = "ok"
               THEN [ap EXCEPT ![a].cameras = Rows(store), ![a].pc = "write"]
               ELSE [ap EXCEPT ![a].status = "error", ![a].pc = "done"]
    /\ UNCHANGED <<pure, tk, relayVars, sm, pr, ncalls, crudVars, doc, applies, restarts>>

\* The rows of a table that are active, in primary-key order
\* (select(Camera).where(Camera.is_active == True)).
ActiveRows(table) == LET IsActive(row) == row.is_active IN SelectSeq(Rows(table), IsActive)

\* sync_frigate_cameras (health router), lines 183-197: read the active
\* cameras in a session of its own and make the camera dicts, which hold the
\* name, is_active and the two stream URLs. An exception leaves the handler.
sync_frigate_cameras ==
    /\ ap["sync"].pc = "idle"
    /\ \E o \in {"ok", "raise"} :
         ap' = IF o = "ok"
               THEN [ap EXCEPT !["sync"].cameras =
                        LET rows == ActiveRows(store)
                        IN [i \in DOMAIN rows |->
                              [name |-> rows[i].name, is_active |-> rows[i].is_active,
                               main_stream_url |-> rows[i].main_stream_url,
                               sub_stream_url |-> rows[i].sub_stream_url]],
                                !["sync"].pc = "write"]
               ELSE [ap EXCEPT !["sync"].status = "error", !["sync"].pc = "done"]
    /\ applies' = applies + 1
    /\ UNCHANGED <<pure, tk, relayVars, sm, pr, ncalls, crudVars, doc, restarts>>

\* sync_cameras_to_frigate (main), lines 94-117: read the active cameras;
\* with none, return; else make the camera dicts, which hold the name,
\* is_active, the stream URLs, the retentions, the mode and the zones.
sync_cameras_to_frigate ==
    /\ ap["startup"].pc = "idle"
    /\ LET rows == ActiveRows(store)
       IN ap' = IF rows = <<>>
                THEN [ap EXCEPT !["startup"].pc = "done"]
                ELSE [ap EXCEPT !["startup"].cameras =
                         [i \in DOMAIN rows |->
                            [name |-> rows[i].name, is_active |-> rows[i].is_active,
                             main_stream_url |-> rows[i].main_stream_url,
                             sub_stream_url |-> rows[i].sub_stream_url,
                             retention_days |-> rows[i].retention_days,
                             recording_mode |-> rows[i].recording_mode,
                             event_retention_days |-> rows[i].event_retention_days]],
                                 !["startup"].pc = "write"]
    /\ applies' = applies + 1
    /\ UNCHANGED <<pure, tk, relayVars, sm, pr, ncalls, crudVars, doc, restarts>>

\* sync_cameras, lines 350-365: generate and write; a failed write ends the
\* sync with an error, before any restart.
AfterWriteMut(w) == "restart"
AfterWrite(w) == IF w = "ok" THEN "restart" ELSE "done"

\* sync_cameras up to write_config line 303: generate_config, mkdir,
\* yaml.dump, then write_text opens config_path for writing, which truncates
\* the file in place.
sync_cameras_write(a) ==
    /\ ap[a].pc = "write"
    /\ \E w \in WriteOutcomes \ {"failed_during"} :
         IF w = "ok"
         THEN /\ doc' = PartialDocument
              /\ ap' = [ap EXCEPT ![a].pc = "writing"]
         ELSE /\ doc' = doc
              /\ ap' = [ap EXCEPT ![a].status = "error", ![a].wrote = w, ![a].pc = AfterWrite(w)]
    /\ UNCHANGED <<pure, tk, relayVars, sm, pr, ncalls, crudVars, applies, restarts>>

\* write_config, lines 303-309: write_text writes the content into the
\* truncated file, or raises part-way and leaves it as it is.
write_text(a) ==
    /\ ap[a].pc = "writing"
    /\ \E w \in WriteOutcomes \ {"failed_before"} :
         /\ doc' = IF w = "ok" THEN generate_config(ap[a].cameras) ELSE doc
         /\ ap' = [ap EXCEPT ![a].status = IF w = "ok" THEN "ok" ELSE "error",
                             ![a].wrote = w,
                             ![a].pc = AfterWrite(w)]
    /\ UNCHANGED <<pure, tk, relayVars, sm, pr, ncalls, crudVars, applies, restarts>>

\* restart_frigate: the status for each way POST /api/restart can end.
RestartStatusMut(o) == "ok"
RestartStatus(o) ==
    CASE o = "ok" -> "ok"
      [] o = "status_err" -> "warning"
      [] o = "refused" -> "unavailable"
      [] OTHER -> "error"

\* sync_cameras, lines 367-372, and restart_frigate.
restart_frigate(a) ==
    /\ ap[a].pc = "restart"
    /\ \E o \in Outcomes :
         ap' = [ap EXCEPT ![a].restart = RestartStatus(o), ![a].posted = o, ![a].pc = "done"]
    /\ restarts' = restarts + 1
    /\ UNCHANGED <<pure, tk, relayVars, sm, pr, ncalls, crudVars, doc, applies>>

----------------------------------------------------------------------------
(* Recording scheduler (services/scheduler.py) *)

\* No mode: what _find_applicable_mode returns when no slot matches.
NoMode == "<None>"

Days == 0..MaxDay
Times == 0..MaxTime

\* A schedule slot of a camera (RecordingSchedule row).
Slot(day_of_week, start_time, end_time, mode) ==
    [day_of_week |-> day_of_week, start_time |-> start_time,
     end_time |-> end_time, mode |-> mode]

\* _find_applicable_mode: the mode of the first slot, in stored order, of the
\* current day whose range (same-day or overnight) holds the current time.
_find_applicable_modeMut(schedules, current_day, current_time) ==
    LET hits == {i \in DOMAIN schedules :
                    /\ schedules[i].day_of_week = current_day
                    /\ schedules[i].start_time <= current_time
                    /\ current_time <= schedules[i].end_time}
    IN IF hits = {} THEN NoMode
       ELSE schedules[CHOOSE i \in hits : \A j \in hits : i <= j].mode
_find_applicable_modeOvernightMut(schedules, current_day, current_time) ==
    LET previous_day == (current_day + MaxDay) % (MaxDay + 1)
        hits == {i \in DOMAIN schedules :
                    LET start == schedules[i].start_time
                        end == schedules[i].end_time
                    IN \/ /\ schedules[i].day_of_week = current_day
                          /\ IF start <= end
                             THEN start <= current_time /\ current_time <= end
                             ELSE current_time >= start \/ current_time <= end
                       \/ /\ schedules[i].day_of_week = previous_day
                          /\ start > end /\ current_time <= end}
    IN IF hits = {} THEN NoMode
       ELSE schedules[CHOOSE i \in hits : \A j \in hits : i <= j].mode
RECURSIVE _find_applicable_mode(_, _, _)
_find_applicable_mode(schedules, current_day, current_time) ==
    IF schedules = <<>> THEN NoMode
    ELSE LET schedule == Head(schedules)
             start == schedule.start_time
             end == schedule.end_time
             rest == _find_applicable_mode(Tail(schedules), current_day, current_time)
         IN IF schedule.day_of_week # current_day THEN rest
            ELSE IF start <= end
                 THEN IF start <= current_time /\ current_time <= end
                      THEN schedule.mode ELSE rest
                 ELSE IF current_time >= start \/ current_time <= end
                      THEN schedule.mode ELSE rest

\* The scheduler between two checks. before, applies_before and
\* restarts_before remember the store, the sync count and the restart count
\* at the start of the check; ended tells how the check ended (it returned
\* its count, or an exception was logged); prev is the clock reading and the
\* end of the check before this one.
TkIdle ==
    [pc |-> "sleep", now |-> [day |-> 0, time |-> 0], session |-> EmptyDict,
     updated_count |-> 0, cameras_to_sync |-> <<>>, calls |-> 0, result |-> 0,
     ticks |-> 0, before |-> EmptyDict, applies_before |-> 0, restarts_before |-> 0,
     ended |-> "none", prev |-> [now |-> [day |-> 0, time |-> 0], ended |-> "none"]]

\* periodic_schedule_check, lines 183-189: the loop starts the next check
\* when the check before it has returned and the sleep is over.
LoopResumesMut(pc) == pc \in {"sleep", "sync"}
LoopResumes(pc) == pc = "sleep"

\* check_and_apply_schedules, lines 59-84: the rows as the loop leaves them
\* in the session. Only active cameras are selected (line 53).
ScheduledMut(table, now) ==
    [id \in DOMAIN table |->
        LET camera == table[id]
            applicable_mode == _find_applicable_mode(camera.schedules, now.day, now.time)
        IN IF camera.schedules = <<>> \/ applicable_mode = NoMode
           THEN camera
           ELSE [camera EXCEPT !.recording_mode = applicable_mode]]
Scheduled(table, now) ==
    [id \in DOMAIN table |->
        LET camera == table[id]
            applicable_mode == _find_applicable_mode(camera.schedules, now.day, now.time)
        IN IF ~camera.is_active \/ camera.schedules = <<>> \/ applicable_mode = NoMode
           THEN camera
           ELSE [camera EXCEPT !.recording_mode = applicable_mode]]

\* The ids of the cameras whose recording mode differs between two tables.
ChangedIdsMut(table, after) ==
    {id \in DOMAIN table : table[id].is_active /\ table[id].schedules # <<>>}
ChangedIds(table, after) ==
    {id \in DOMAIN table : after[id].recording_mode # table[id].recording_mode}

\* The names of the rows of ids, in the order of the table.
NamesOf(table, ids) ==
    LET Picked(row) == \E id \in ids : table[id] = row
        rows == SelectSeq(Rows(table), Picked)
    IN [i \in DOMAIN rows |-> rows[i].name]

\* periodic_schedule_check, lines 183-189: after the sleep, the next check
\* starts and reads the clock (lines 41-43).
periodic_schedule_check ==
    /\ LoopResumes(tk.pc) /\ tk.ticks < MaxTicks
    /\ \E day \in Days, time \in Times :
         tk' = [TkIdle EXCEPT !.pc = "select", !.now = [day |-> day, time |-> time],
                              !.ticks = tk.ticks + 1, !.before = store,
                              !.applies_before = applies, !.restarts_before = restarts,
                              !.prev = [now |-> tk.now, ended |-> tk.ended]]
    /\ UNCHANGED <<pure, relayVars, sm, pr, ncalls, crudVars, applyVars>>

\* Lines 90-92 (and 186-187): an exception is caught and logged, the check
\* returns 0 and the loop goes on to its sleep.
scheduler_errorMut(t) == [t EXCEPT !.pc = "stopped", !.result = 0, !.ended = "raised"]
scheduler_error(t) == [t EXCEPT !.pc = "sleep", !.result = 0, !.ended = "raised"]

\* Lines 48-84: select the active cameras with their schedules and change
\* the modes in the session. An exception is logged and 0 is returned.
check_and_apply_schedules_select ==
    /\ tk.pc = "select"
    /\ \E o \in {"ok", "raise"} :
         tk' = IF o = "raise"
               THEN scheduler_error(tk)
               ELSE LET after == Scheduled(store, tk.now)
                        ids == ChangedIds(store, after)
                    IN [tk EXCEPT !.session = after,
                                  !.updated_count = Cardinality(ids),
                                  !.cameras_to_sync = NamesOf(store, ids),
                                  !.pc = IF ids # {} THEN "commit" ELSE "callback"]
    /\ UNCHANGED <<pure, relayVars, sm, pr, ncalls, crudVars, applyVars>>

\* Lines 49, 90-92: the table after an exception left the session block: the
\* changes made in the session were not committed and go with the session.
session_discardedMut(table, session) ==
    [id \in DOMAIN table |->
        IF id \in DOMAIN session THEN [table[id] EXCEPT !.recording_mode = session[id].recording_mode]
        ELSE table[id]]
session_discarded(table, session) == table

\* Lines 86-93: commit the changes (one UPDATE per camera whose mode was
\* set to another value); an exception is logged, the session is discarded
\* and 0 is returned.
check_and_apply_schedules_commit ==
    /\ tk.pc = "commit"
    /\ \E o \in {"ok", "raise"} :
         IF o = "ok"
         THEN /\ store' = [id \in DOMAIN store |->
                             IF id \in DOMAIN tk.session
                                /\ tk.session[id].recording_mode # store[id].recording_mode
                             THEN onupdate([store[id] EXCEPT
                                               !.recording_mode = tk.session[id].recording_mode])
                             ELSE store[id]]
              /\ tk' = [tk EXCEPT !.pc = "callback"]
         ELSE /\ store' = session_discarded(store, tk.session)
              /\ tk' = scheduler_error(tk)
    /\ UNCHANGED <<pure, relayVars, sm, pr, ncalls, sess, h, bg, applyVars>>

\* Lines 95-96: the sync callback (set at line 179) is called when at least
\* one camera was updated.
SyncCallbackCallsMut(updated_count) == updated_count
SyncCallbackCalls(updated_count) == IF updated_count > 0 THEN 1 ELSE 0

\* Lines 96-98: await the sync callback.
check_and_apply_schedules_callback ==
    /\ tk.pc = "callback" /\ tk.calls < SyncCallbackCalls(tk.updated_count)
    /\ tk' = [tk EXCEPT !.calls = @ + 1, !.pc = "sync"]
    /\ ap' = [ap EXCEPT !["tick"] = [ApIdle EXCEPT !.pc = "read"]]
    /\ applies' = applies + 1
    /\ UNCHANGED <<pure, relayVars, sm, pr, ncalls, crudVars, doc, restarts>>

\* The callback returned (it catches and logs every exception).
check_and_apply_schedules_synced ==
    /\ tk.pc = "sync" /\ ap["tick"].pc = "done"
    /\ ap' = [ap EXCEPT !["tick"].pc = "finished"]
    /\ tk' = [tk EXCEPT !.pc = "callback"]
    /\ UNCHANGED <<pure, relayVars, sm, pr, ncalls, crudVars, doc, applies, restarts>>

\* Line 102: return the number of updated cameras; the loop sleeps.
check_and_apply_schedules_return ==
    /\ tk.pc = "callback" /\ tk.calls >= SyncCallbackCalls(tk.updated_count)
    /\ tk' = [tk EXCEPT !.pc = "sleep", !.result = tk.updated_count, !.ended = "returned"]
    /\ UNCHANGED <<pure, relayVars, sm, pr, ncalls, crudVars, applyVars>>

\* A check has ended and the loop sleeps.
TickOver == tk.pc = "sleep" /\ tk.ticks > 0

----------------------------------------------------------------------------
(* The cameras router: one request at a time; its stream manager calls run *)
(* as caller "p1".                                                         *)

\* No request. expect is the table the request means to leave in the store;
\* changed tells whether the request changed a row; relay_failed whether a
\* stream manager call of the request reported a target it could not
\* register or remove; answered whether the relay answered every request of
\* those calls as a working relay does; resync lists the stream manager
\* calls update_camera started; closed whether get_db has committed or
\* rolled back; url and response are the stream_url and the response body
\* of a connection test (StreamTestResponse: success and error).
StreamTestResponse(result) == [success |-> result.success, error |-> result.error]

HIdle ==
    [op |-> "none", pc |-> "idle", id |-> 0, old_name |-> None,
     todo |-> <<>>, created |-> 0, deleted |-> 0, failed |-> 0,
     status |-> "none", expect |-> EmptyDict, changed |-> FALSE,
     relay_failed |-> FALSE, answered |-> TRUE, resync |-> <<>>, closed |-> FALSE,
     url |-> None, response |-> StreamTestResponse(Failure("none"))]

\* A report with a target that was not registered or not removed.
ReportsFailure(report) == \E t \in {"main", "sub"} : report[t] \in {"failed", "not_found"}

\* The request's record once the report of its stream manager call is in.
Noted(rec, call) ==
    [rec EXCEPT !.relay_failed = @ \/ ReportsFailure(call.result),
                !.answered = @ /\ call.answered]

\* try: await stream_manager...  except Exception: logger.error (create
\* lines 120-129, update 263-276, delete 309-313): what reaches the handler
\* from a stream manager call, whatever its report.
AfterStreamCallMut(report) ==
    IF \E t \in {"main", "sub"} : report[t] \in {"failed", "not_found"} THEN "raise" ELSE "continue"
AfterStreamCall(report) == "continue"

\* The handler's state after an exception left it: the request fails.
Raised(rec) == [rec EXCEPT !.pc = "returned", !.status = "500"]

\* create_camera, lines 113-125: insert, flush, start register_stream.
create_camera(data) ==
    /\ h.pc = "idle"
    /\ LET id == NewId(sess)
       IN /\ sess' = Put(sess, id, data)
          /\ h' = [HIdle EXCEPT !.op = "create", !.pc = "register", !.id = id,
                                !.expect = Put(sess, id, data), !.changed = TRUE]
          /\ sm' = [sm EXCEPT !["p1"] = register_stream(data.name, data.main_stream_url, data.sub_stream_url)]
    /\ UNCHANGED <<pure, tk, relayVars, pr, ncalls, store, bg, applyVars>>

\* create_camera, lines 126-134: queue the sync, return the camera.
create_camera_return ==
    /\ h.op = "create" /\ h.pc = "register" /\ sm["p1"].pc = "done"
    /\ IF AfterStreamCall(sm["p1"].result) = "raise"
       THEN h' = Raised(h) /\ bg' = bg
       ELSE h' = [Noted(h, sm["p1"]) EXCEPT !.pc = "returned", !.status = "201"] /\ bg' = bg + 1
    /\ sm' = [sm EXCEPT !["p1"] = SmIdle]
    /\ UNCHANGED <<pure, tk, relayVars, pr, ncalls, store, sess, applyVars>>

\* The fields a PATCH body can set.
Patched(camera, data) == [f \in DOMAIN camera |-> IF f \in DOMAIN data THEN data[f] ELSE camera[f]]

\* update_camera, lines 265-269: the first stream manager call of a re-sync.
ResyncFirstMut(renamed) == "register"
ResyncFirst(renamed) == IF renamed THEN "unregister" ELSE "register"

\* A stream manager call update_camera started.
Call(op, name) == [op |-> op, name |-> name]

\* update_camera, lines 235-273: 404, or apply the fields, flush (an UPDATE
\* when a field got another value), and re-sync with the relay when the
\* name or a url was given.
update_camera(camera_id, data) ==
    /\ h.pc = "idle"
    /\ IF camera_id \notin DOMAIN sess
       THEN /\ h' = [HIdle EXCEPT !.op = "update", !.pc = "returned", !.status = "404"]
            /\ UNCHANGED <<sess, sm>>
       ELSE LET old == sess[camera_id]
                camera == IF Patched(old, data) # old THEN onupdate(Patched(old, data)) ELSE old
                needs_resync == \E f \in {"name", "main_stream_url", "sub_stream_url"} : f \in DOMAIN data
                renamed == "name" \in DOMAIN data /\ old.name # camera.name
                rec == [HIdle EXCEPT !.op = "update", !.id = camera_id, !.old_name = old.name,
                                     !.expect = Put(sess, camera_id, camera),
                                     !.changed = (camera # old)]
            IN /\ sess' = Put(sess, camera_id, camera)
               /\ IF ~needs_resync
                  THEN h' = [rec EXCEPT !.pc = "returned", !.status = "200"] /\ sm' = sm
                  ELSE IF ResyncFirst(renamed) = "unregister"
                       THEN /\ h' = [rec EXCEPT !.pc = "unregister",
                                                !.resync = <<Call("unregister", old.name)>>]
                            /\ sm' = [sm EXCEPT !["p1"] = unregister_stream(old.name)]
                       ELSE /\ h' = [rec EXCEPT !.pc = "register",
                                                !.resync = <<Call("register", camera.name)>>]
                            /\ sm' = [sm EXCEPT !["p1"] = register_stream(camera.name, camera.main_stream_url,
                                                                          camera.sub_stream_url)]
    /\ UNCHANGED <<pure, tk, relayVars, pr, ncalls, store, bg, applyVars>>

\* update_camera, lines 266-273: the old streams are gone, register the new.
update_camera_register ==
    /\ h.op = "update" /\ h.pc = "unregister" /\ sm["p1"].pc = "done"
    /\ IF AfterStreamCall(sm["p1"].result) = "raise"
       THEN h' = Raised(h) /\ sm' = [sm EXCEPT !["p1"] = SmIdle]
       ELSE /\ h' = [Noted(h, sm["p1"]) EXCEPT !.pc = "register",
                                               !.resync = Append(@, Call("register", sess[h.id].name))]
            /\ sm' = [sm EXCEPT !["p1"] = register_stream(sess[h.id].name, sess[h.id].main_stream_url,
                                                          sess[h.id].sub_stream_url)]
    /\ UNCHANGED <<pure, tk, relayVars, pr, ncalls, store, sess, bg, applyVars>>

\* update_camera, lines 274-278: return the camera. No sync is queued.
update_camera_return ==
    /\ h.op = "update" /\ h.pc = "register" /\ sm["p1"].pc = "done"
    /\ h' = IF AfterStreamCall(sm["p1"].result) = "raise" THEN Raised(h)
            ELSE [Noted(h, sm["p1"]) EXCEPT !.pc = "returned", !.status = "200"]
    /\ sm' = [sm EXCEPT !["p1"] = SmIdle]
    /\ UNCHANGED <<pure, tk, relayVars, pr, ncalls, store, sess, bg, applyVars>>

\* delete_camera, lines 292-310: 404, or delete the row and start
\* unregister_stream.
delete_camera(camera_id) ==
    /\ h.pc = "idle"
    /\ IF camera_id \notin DOMAIN sess
       THEN /\ h' = [HIdle EXCEPT !.op = "delete", !.pc = "returned", !.status = "404"]
            /\ UNCHANGED <<sess, sm>>
       ELSE /\ sess' = Drop(sess, {camera_id})
            /\ h' = [HIdle EXCEPT !.op = "delete", !.pc = "unregister", !.id = camera_id,
                                  !.old_name = sess[camera_id].name,
                                  !.expect = Drop(sess, {camera_id}), !.changed = TRUE]
            /\ sm' = [sm EXCEPT !["p1"] = unregister_stream(sess[camera_id].name)]
    /\ UNCHANGED <<pure, tk, relayVars, pr, ncalls, store, bg, applyVars>>

\* delete_camera, lines 311-318: queue the sync, return.
delete_camera_return ==
    /\ h.op = "delete" /\ h.pc = "unregister" /\ sm["p1"].pc = "done"
    /\ IF AfterStreamCall(sm["p1"].result) = "raise"
       THEN h' = Raised(h) /\ bg' = bg
       ELSE h' = [Noted(h, sm["p1"]) EXCEPT !.pc = "returned", !.status = "204"] /\ bg' = bg + 1
    /\ sm' = [sm EXCEPT !["p1"] = SmIdle]
    /\ UNCHANGED <<pure, tk, relayVars, pr, ncalls, store, sess, applyVars>>

\* str.lower() of a name.
LowerName(name) == [i \in 1..Len(name) |-> Lower(name[i])]

\* create_cameras_bulk, lines 153-177: the rows the loop inserts. A name
\* whose lower() is already in the table or earlier in the batch is skipped.
RECURSIVE BulkInsert(_, _)
BulkInsert(cameras, table) ==
    IF cameras = <<>> THEN table
    ELSE LET data == Head(cameras)
             existing_names == {LowerName(table[i].name) : i \in DOMAIN table}
         IN IF LowerName(data.name) \in existing_names
            THEN BulkInsert(Tail(cameras), table)
            ELSE BulkInsert(Tail(cameras), Put(table, NewId(table), data))

\* The ids of a set in increasing order.
RECURSIVE Ascending(_)
Ascending(S) == IF S = {} THEN <<>> ELSE Append(Ascending(S \ {Max(S)}), Max(S))

\* The number of sync tasks a bulk request queues (lines 199-200, 374-375).
BulkSyncTasksMut(n) == n
BulkSyncTasks(n) == IF n > 0 THEN 1 ELSE 0

\* create_cameras_bulk, lines 150-180: insert the cameras, commit.
create_cameras_bulk(cameras) ==
    /\ h.pc = "idle"
    /\ LET table == BulkInsert(cameras, sess)
           new == (DOMAIN table) \ (DOMAIN sess)
       IN /\ sess' = table
          /\ store' = table
          /\ h' = [HIdle EXCEPT !.op = "bulk_create", !.pc = "bulk_register",
                                !.todo = Ascending(new), !.created = Cardinality(new),
                                !.failed = Len(cameras) - Cardinality(new),
                                !.expect = table, !.changed = (new # {})]
    /\ UNCHANGED <<pure, tk, relayVars, sm, pr, ncalls, bg, applyVars>>

\* create_cameras_bulk, lines 183-190: register the next created camera.
create_cameras_bulk_register ==
    /\ h.op = "bulk_create" /\ h.pc = "bulk_register" /\ h.todo # <<>>
    /\ LET camera == sess[Head(h.todo)]
       IN sm' = [sm EXCEPT !["p1"] = register_stream(camera.name, camera.main_stream_url, camera.sub_stream_url)]
    /\ h' = [h EXCEPT !.pc = "bulk_registering"]
    /\ UNCHANGED <<pure, tk, relayVars, pr, ncalls, store, sess, bg, applyVars>>

\* create_cameras_bulk, lines 191-192: on to the next camera.
create_cameras_bulk_registered ==
    /\ h.op = "bulk_create" /\ h.pc = "bulk_registering" /\ sm["p1"].pc = "done"
    /\ h' = IF AfterStreamCall(sm["p1"].result) = "raise" THEN Raised(h)
            ELSE [Noted(h, sm["p1"]) EXCEPT !.todo = Tail(@), !.pc = "bulk_register"]
    /\ sm' = [sm EXCEPT !["p1"] = SmIdle]
    /\ UNCHANGED <<pure, tk, relayVars, pr, ncalls, store, sess, bg, applyVars>>

\* create_cameras_bulk, lines 194-209: queue one sync if any was created.
create_cameras_bulk_return ==
    /\ h.op = "bulk_create" /\ h.pc = "bulk_register" /\ h.todo = <<>>
    /\ bg' = bg + BulkSyncTasks(h.created)
    /\ h' = [h EXCEPT !.pc = "returned", !.status = "200"]
    /\ UNCHANGED <<pure, tk, relayVars, sm, pr, ncalls, store, sess, applyVars>>

\* bulk_delete_cameras, lines 333-337.
bulk_delete_cameras(camera_ids) ==
    /\ h.pc = "idle"
    /\ h' = [HIdle EXCEPT !.op = "bulk_delete", !.pc = "bulk_delete", !.todo = camera_ids,
                          !.expect = Drop(sess, {camera_ids[i] : i \in 1..Len(camera_ids)})]
    /\ UNCHANGED <<pure, tk, relayVars, sm, pr, ncalls, store, sess, bg, applyVars>>

\* bulk_delete_cameras, lines 338-357: the next id: not found, or delete
\* the row and start unregister_stream.
bulk_delete_cameras_next ==
    /\ h.op = "bulk_delete" /\ h.pc = "bulk_delete" /\ h.todo # <<>>
    /\ LET camera_id == Head(h.todo)
       IN IF camera_id \notin DOMAIN sess
          THEN /\ h' = [h EXCEPT !.failed = @ + 1, !.todo = Tail(@)]
               /\ UNCHANGED <<sess, sm>>
          ELSE /\ sess' = Drop(sess, {camera_id})
               /\ sm' = [sm EXCEPT !["p1"] = unregister_stream(sess[camera_id].name)]
               /\ h' = [h EXCEPT !.pc = "bulk_unregistering", !.changed = TRUE]
    /\ UNCHANGED <<pure, tk, relayVars, pr, ncalls, store, bg, applyVars>>

\* bulk_delete_cameras, lines 358-363: count the camera as deleted.
bulk_delete_cameras_unregistered ==
    /\ h.op = "bulk_delete" /\ h.pc = "bulk_unregistering" /\ sm["p1"].pc = "done"
    /\ h' = IF AfterStreamCall(sm["p1"].result) = "raise" THEN Raised(h)
            ELSE [Noted(h, sm["p1"]) EXCEPT !.deleted = @ + 1, !.todo = Tail(@), !.pc = "bulk_delete"]
    /\ sm' = [sm EXCEPT !["p1"] = SmIdle]
    /\ UNCHANGED <<pure, tk, relayVars, pr, ncalls, store, sess, bg, applyVars>>

\* bulk_delete_cameras, lines 370-378: commit, queue one sync if any was deleted.
bulk_delete_cameras_return ==
    /\ h.op = "bulk_delete" /\ h.pc = "bulk_delete" /\ h.todo = <<>>
    /\ store' = sess
    /\ bg' = bg + BulkSyncTasks(h.deleted)
    /\ h' = [h EXCEPT !.pc = "returned", !.status = "200"]
    /\ UNCHANGED <<pure, tk, relayVars, sm, pr, ncalls, sess, applyVars>>

\* test_camera_connection, line 521.
valid_schemesMut == {"rtsp://", "rtsps://", "http://", "https://", "ftp://"}
valid_schemes == {"rtsp://", "rtsps://", "http://", "https://"}

\* str.lower() on the scheme prefixes the requests use.
LowerScheme(scheme) == IF scheme = "RTSP://" THEN "rtsp://" ELSE scheme

\* test_camera_connection, lines 510-530: an empty URL and a URL that starts
\* with none of the valid schemes are answered at once; any other URL is
\* handed to test_stream_connection as it is.
test_camera_connection(stream_url) ==
    /\ h.pc = "idle" /\ pr["p1"].pc = "idle"
    /\ LET rec == [HIdle EXCEPT !.op = "test", !.url = stream_url]
           Answered(error) ==
               [rec EXCEPT !.pc = "returned", !.status = "200", !.closed = TRUE,
                           !.response = [success |-> FALSE, error |-> error]]
       IN IF stream_url = None
          THEN h' = Answered("URL vacia") /\ pr' = pr
          ELSE IF LowerScheme(stream_url[1]) \notin valid_schemes
               THEN h' = Answered("Protocolo no soportado") /\ pr' = pr
          ELSE /\ h' = [rec EXCEPT !.pc = "probing"]
               /\ pr' = [pr EXCEPT !["p1"] = test_stream_connection(stream_url, 1)]
    /\ UNCHANGED <<pure, tk, relayVars, sm, ncalls, store, sess, bg, applyVars>>

\* test_camera_connection, lines 532-536: the response for the probe's result.
test_camera_connection_return ==
    /\ h.op = "test" /\ h.pc = "probing" /\ pr["p1"].pc = "done"
    /\ h' = [h EXCEPT !.pc = "returned", !.status = "200", !.closed = TRUE,
                      !.response = StreamTestResponse(pr["p1"].result)]
    /\ UNCHANGED <<pure, tk, relayVars, sm, pr, ncalls, store, sess, bg, applyVars>>

\* get_db, lines 57-63: after the handler, commit; after an exception,
\* roll back.
get_db_exit ==
    /\ h.pc = "returned" /\ ~h.closed
    /\ IF h.status \in {"404", "500"}
       THEN store' = store /\ sess' = store
       ELSE store' = sess /\ sess' = sess
    /\ h' = [h EXCEPT !.closed = TRUE]
    /\ UNCHANGED <<pure, tk, relayVars, sm, pr, ncalls, bg, applyVars>>

\* Starlette runs the next background task of the response, one at a time.
run_background_task ==
    /\ h.pc = "returned" /\ bg > 0 /\ ap["crud"].pc \in {"idle", "finished"}
    /\ bg' = bg - 1
    /\ ap' = [ap EXCEPT !["crud"] = [ApIdle EXCEPT !.pc = "read"]]
    /\ applies' = applies + 1
    /\ UNCHANGED <<pure, tk, relayVars, sm, pr, ncalls, store, sess, h, doc, restarts>>

\* The background task returned (sync_all_to_frigate logs the result).
background_task_done ==
    /\ ap["crud"].pc = "done"
    /\ ap' = [ap EXCEPT !["crud"] = [ApIdle EXCEPT !.pc = "finished", !.status = ap["crud"].status,
                                                   !.restart = ap["crud"].restart]]
    /\ UNCHANGED <<pure, tk, relayVars, sm, pr, ncalls, crudVars, doc, applies, restarts>>

\* The request is over: handler returned, transaction closed, no background
\* task queued or running.
RequestOver == h.pc = "returned" /\ h.closed /\ bg = 0 /\ ap["crud"].pc \in {"idle", "finished"}

\* No request, no sync, an empty table, no configuration file.
NoCrud ==
    /\ store = EmptyDict
    /\ sess = EmptyDict
    /\ h = HIdle
    /\ bg = 0
    /\ ap = [a \in Triggers |-> ApIdle]
    /\ doc = NoDocument
    /\ applies = 0
    /\ restarts = 0
    /\ tk = TkIdle
    /\ pure = PureIdle

\* The relay with the streams of the given cameras registered (rtsp sources).
Registered(names) ==
    [id \in {StreamId(n, t) : n \in names, t \in {"main", "sub"}} |-> <<"rtsp://", "cam">>]

----------------------------------------------------------------------------
(* Specification SpecCrud: one request to the cameras router, from a store *)
(* whose cameras are registered and configured, to the end of its          *)
(* background task.                                                        *)

RtspUrl == <<"rtsp://", "cam">>
HttpUrl == <<"http://", "cam">>

\* The bodies of the create requests.
CreateInputs == {Camera(n, RtspUrl, None, TRUE, "motion") : n \in CameraNames}

\* The ids the requests name: those of the stored cameras and a missing one.
RequestIds == {1, 2, 3}

\* The names the rename requests give: one with ids of its own, one whose ids
\* are those of the stored camera "A b".
NewNames == {<<"C">>, <<"a", "-", "b">>}

\* Sequences of 1..MaxBulk elements of S.
Batches(S) == UNION {[1..n -> S] : n \in 1..MaxBulk}

\* The tables the request can find: no camera, one, two.
InitialStores ==
    {EmptyDict,
     <<Camera(<<"A", " ", "b">>, RtspUrl, None, TRUE, "motion")>>,
     <<Camera(<<"A", " ", "b">>, RtspUrl, None, TRUE, "motion"),
       Camera(<<"C">>, RtspUrl, None, TRUE, "events")>>}

InitCrud ==
    /\ \E table \in InitialStores :
         /\ store = table /\ sess = table
         /\ active = Registered({table[i].name : i \in DOMAIN table})
         /\ durable = Registered({table[i].name : i \in DOMAIN table})
         /\ doc = IF table = EmptyDict THEN NoDocument ELSE generate_config(Rows(table))
    /\ sm = [p \in Procs |-> SmIdle]
    /\ pr = [p \in Procs |-> PrIdle]
    /\ ncalls = 0
    /\ h = HIdle
    /\ bg = 0
    /\ ap = [a \in Triggers |-> ApIdle]
    /\ applies = 0
    /\ restarts = 0
    /\ tk = TkIdle
    /\ pure = PureIdle

NextCrud ==
    \/ \E data \in CreateInputs : create_camera(data)
    \/ create_camera_return
    \/ \E id \in RequestIds, name \in NewNames : update_camera(id, [name |-> name])
    \/ \E id \in RequestIds : update_camera(id, [recording_mode |-> "continuous"])
    \/ \E id \in RequestIds : update_camera(id, [main_stream_url |-> HttpUrl])
    \/ \E id \in RequestIds : update_camera(id, [is_active |-> FALSE])
    \/ update_camera_register
    \/ update_camera_return
    \/ \E id \in RequestIds : delete_camera(id)
    \/ delete_camera_return
    \/ \E cameras \in Batches(CreateInputs) : create_cameras_bulk(cameras)
    \/ create_cameras_bulk_register
    \/ create_cameras_bulk_registered
    \/ create_cameras_bulk_return
    \/ \E ids \in Batches(RequestIds) : bulk_delete_cameras(ids)
    \/ bulk_delete_cameras_next
    \/ bulk_delete_cameras_unregistered
    \/ bulk_delete_cameras_return
    \/ get_db_exit
    \/ run_background_task
    \/ sync_all_to_frigate("crud")
    \/ sync_cameras_write("crud")
    \/ write_text("crud")
    \/ restart_frigate("crud")
    \/ background_task_done
    \/ _add_stream_via_api("p1")
    \/ _persist_stream_config_get("p1")
    \/ _persist_stream_config_patch("p1")
    \/ _remove_stream_via_api("p1")
    \/ unregister_stream_get("p1")
    \/ unregister_stream_patch("p1")
    \/ stream_call_return("p1")

SpecCrud == InitCrud /\ [][NextCrud]_vars

----------------------------------------------------------------------------
(* Properties of the cameras router (SpecCrud) *)

\* C4: a create, update or delete request for an existing camera (any new
\* one) ends without an exception and the store holds its change, whatever
\* the relay and the detection engine answered.
C4_CrudKeptDespiteFailures ==
    (RequestOver /\ h.op \in {"create", "update", "delete"} /\ h.status # "404") =>
        /\ h.status \in {"200", "201", "204"}
        /\ store = h.expect

C4_Witness ==
    /\ RequestOver /\ h.op = "create" /\ h.relay_failed
    /\ ap["crud"].status = "error"
    /\ store = h.expect /\ h.id \in DOMAIN store

\* The cameras a bulk request created or deleted.
BulkCount == IF h.op = "bulk_create" THEN h.created ELSE h.deleted

\* C5 (as claimed): a bulk request that created or deleted at least one
\* camera results in exactly one sync and exactly one restart request, and
\* one that created or deleted none results in neither.
C5_BulkOneRestart ==
    (RequestOver /\ h.op \in {"bulk_create", "bulk_delete"}) =>
        /\ applies = (IF BulkCount > 0 THEN 1 ELSE 0)
        /\ restarts = (IF BulkCount > 0 THEN 1 ELSE 0)

\* C5 (amended): a bulk request that created or deleted at least one camera
\* results in exactly one sync, which requests exactly one restart when its
\* document write succeeded and none when it failed; a bulk request that
\* created or deleted none results in no sync and no restart request.
C5_BulkOneSync ==
    (RequestOver /\ h.op \in {"bulk_create", "bulk_delete"}) =>
        /\ applies = (IF BulkCount > 0 THEN 1 ELSE 0)
        /\ restarts = (IF BulkCount > 0 /\ ap["crud"].status = "ok" THEN 1 ELSE 0)

C5_Witness ==
    /\ RequestOver /\ h.op = "bulk_create" /\ h.created >= 2
    /\ applies = 1 /\ restarts = 1

\* C7: every request that changed the camera store (create, update, delete,
\* bulk create, bulk delete) results in exactly one sync of the detection
\* engine's configuration.
C7_EveryChangeSyncsOnce ==
    (RequestOver /\ h.changed /\ h.status \in {"200", "201", "204"}) => applies = 1

\* The stream ids of a camera name.
IdsOf(name) == {StreamId(name, t) : t \in {"main", "sub"}}

\* update_camera has returned from renaming a camera, and the relay answered
\* every request of the re-sync.
Renamed ==
    /\ h.op = "update" /\ h.pc = "returned" /\ h.status = "200"
    /\ h.id \in DOMAIN sess /\ h.old_name # None /\ sess[h.id].name # h.old_name
    /\ h.answered

\* The re-sync of a rename: unregister the old name, then register the new
\* one, after which the new ids are in the relay with the camera's sources.
RenameResynced ==
    LET camera == sess[h.id]
        sub_url == IF camera.sub_stream_url # None THEN camera.sub_stream_url
                   ELSE camera.main_stream_url
    IN /\ h.resync = <<Call("unregister", h.old_name), Call("register", camera.name)>>
       /\ IdsOf(camera.name) \subseteq DOMAIN active
       /\ IdsOf(camera.name) \subseteq DOMAIN durable
       /\ active[StreamId(camera.name, "main")] = _convert_url_for_go2rtc(camera.main_stream_url)
       /\ active[StreamId(camera.name, "sub")] = _convert_url_for_go2rtc(sub_url)

\* C12 (as claimed): after a rename with a working relay, the ids of the old
\* name are absent from the relay and the ids of the new name are registered
\* with the camera's sources; the unregister was started before the register.
C12_RenameMovesIds ==
    Renamed =>
        /\ RenameResynced
        /\ IdsOf(h.old_name) \cap DOMAIN active = {}

\* C12 (amended): the same, where the ids of the old name are absent from
\* the relay when the old and the new name do not normalise to the same ids;
\* when they do, those ids are registered with the camera's sources.
C12_RenameMovesDistinctIds ==
    Renamed =>
        /\ RenameResynced
        /\ (IdsOf(h.old_name) # IdsOf(sess[h.id].name)) =>
              /\ IdsOf(h.old_name) \cap DOMAIN active = {}
              /\ IdsOf(h.old_name) \cap DOMAIN durable = {}

C12_Witness ==
    /\ Renamed /\ RequestOver
    /\ h.old_name = <<"A", " ", "b">> /\ store[h.id].name = <<"C">>
    /\ IdsOf(<<"A", " ", "b">>) \cap DOMAIN active = {}
    /\ IdsOf(<<"C">>) \subseteq DOMAIN active

\* C37: two cameras that are in the store together under different names
\* have no stream id in common.
C37_DistinctNamesDistinctIds ==
    \A i \in DOMAIN store : \A j \in DOMAIN store :
        store[i].name # store[j].name => IdsOf(store[i].name) \cap IdsOf(store[j].name) = {}

\* C33: when the sync queued by create_camera or delete_camera has read the
\* camera table, the rows it read are those the request's transaction
\* leaves in the store once committed: the created camera is among them,
\* the deleted one is not.
C33_SyncReadsCommitted ==
    (h.op \in {"create", "delete"} /\ h.status \in {"201", "204"} /\ ap["crud"].pc = "write") =>
        ap["crud"].cameras = Rows(h.expect)

----------------------------------------------------------------------------
(* Specification SpecTick: the periodic schedule check over a store of two *)
(* cameras with schedules, with no request in progress.                    *)

\* The schedules a camera can have: none, one same-day slot, two slots of
\* one day that overlap, an overnight slot followed by a whole-day slot.
ScheduleLists ==
    {<<>>,
     <<Slot(0, 0, 1, "continuous")>>,
     <<Slot(0, 1, MaxTime, "events"), Slot(0, 0, MaxTime, "continuous")>>,
     <<Slot(0, MaxTime, 0, "events"), Slot(1, 0, MaxTime, "motion")>>}

TickStores ==
    {<<[Camera(<<"A", " ", "b">>, RtspUrl, None, TRUE, "motion") EXCEPT !.schedules = s1],
       [Camera(<<"C">>, RtspUrl, None, is_active, "motion") EXCEPT !.schedules = s2]>> :
        s1 \in ScheduleLists, s2 \in ScheduleLists, is_active \in BOOLEAN}

InitTick ==
    /\ \E table \in TickStores :
         /\ store = table /\ sess = table
         /\ active = Registered({table[i].name : i \in DOMAIN table})
         /\ durable = Registered({table[i].name : i \in DOMAIN table})
         /\ doc = generate_config(Rows(table))
    /\ sm = [p \in Procs |-> SmIdle]
    /\ pr = [p \in Procs |-> PrIdle]
    /\ ncalls = 0
    /\ h = HIdle
    /\ bg = 0
    /\ ap = [a \in Triggers |-> ApIdle]
    /\ applies = 0
    /\ restarts = 0
    /\ tk = TkIdle
    /\ pure = PureIdle

NextTick ==
    \/ periodic_schedule_check
    \/ check_and_apply_schedules_select
    \/ check_and_apply_schedules_commit
    \/ check_and_apply_schedules_callback
    \/ sync_all_to_frigate("tick")
    \/ sync_cameras_write("tick")
    \/ write_text("tick")
    \/ restart_frigate("tick")
    \/ check_and_apply_schedules_synced
    \/ check_and_apply_schedules_return

SpecTick == InitTick /\ [][NextTick]_vars

----------------------------------------------------------------------------
(* Properties of the schedule check (SpecTick) *)

\* C6: a schedule check that changed the stored mode of at least one camera
\* started exactly one sync, however many cameras it changed, and a check
\* that changed none started no sync.
C6_TickSyncsOnce ==
    TickOver =>
        applies - tk.applies_before = (IF ChangedIds(tk.before, store) # {} THEN 1 ELSE 0)

C6_Witness ==
    /\ TickOver
    /\ Cardinality(ChangedIds(tk.before, store)) >= 2
    /\ Len(tk.cameras_to_sync) >= 2
    /\ applies - tk.applies_before = 1

----------------------------------------------------------------------------
(* Specification SpecGenerate: FrigateConfigGenerator.generate_config       *)
(* called twice on a list of camera dicts.                                  *)

\* generate_config, lines 240-270: the list of camera dicts after the call.
\* The loop only reads them (camera.get).
CamerasAfterGenerateMut(cameras) ==
    [i \in DOMAIN cameras |-> [cameras[i] EXCEPT !.recording_mode = RECORDING_MODE_MAP(@)]]
CamerasAfterGenerate(cameras) == cameras

\* The camera dicts: every name (also names with the same normalised form
\* and the empty name), active or not, every recording mode, two retentions.
CameraDicts ==
    {[Camera(name, RtspUrl, None, is_active, mode) EXCEPT !.retention_days = days] :
        name \in CameraNames \cup {None}, is_active \in BOOLEAN,
        mode \in RecordingModes, days \in {DefaultRetentionDays, 30}}

\* The lists of n camera dicts.
CameraLists(n) == [1..n -> CameraDicts]

\* generate_config(cameras) is called.
GenerateCall ==
    /\ Len(pure.out) < 2
    /\ pure' = [args |-> CamerasAfterGenerate(pure.args),
                out |-> Append(pure.out, generate_config(pure.args))]
    /\ UNCHANGED <<tk, relayVars, sm, pr, ncalls, crudVars, applyVars>>

InitGenerate ==
    /\ active = EmptyDict
    /\ durable = EmptyDict
    /\ sm = [p \in Procs |-> SmIdle]
    /\ pr = [p \in Procs |-> PrIdle]
    /\ ncalls = 0
    /\ store = EmptyDict /\ sess = EmptyDict /\ h = HIdle /\ bg = 0
    /\ ap = [a \in Triggers |-> ApIdle]
    /\ doc = NoDocument /\ applies = 0 /\ restarts = 0
    /\ tk = TkIdle
    /\ \E n \in 0..MaxCameras : \E cameras \in CameraLists(n) :
         pure = [args |-> cameras, out |-> <<>>]

NextGenerate == GenerateCall

SpecGenerate == InitGenerate /\ [][NextGenerate]_vars

ActiveOf(cameras) == {i \in DOMAIN cameras : cameras[i].is_active}

\* C18: the document generate_config returns has as many camera entries as
\* the list has active cameras (one entry per active camera, none for an
\* inactive one).
C18_OneEntryPerActiveCamera ==
    \A k \in DOMAIN pure.out :
        Len(pure.out[k].cameras) = Cardinality(ActiveOf(pure.args))

\* The entry of the document that was generated from camera i of the list:
\* the entry under the camera's normalised name, when no later active camera
\* of the list has the same normalised name.
EntryOf(document, cameras, i) ==
    LET key == _normalize_name(cameras[i].name)
        e == CHOOSE e \in DOMAIN document.cameras : document.cameras[e][1] = key
    IN document.cameras[e][2]

\* Camera i is active and named, and the entry under its normalised name is
\* its own.
HasOwnEntry(cameras, i) ==
    /\ cameras[i].is_active /\ cameras[i].name # None
    /\ \A j \in DOMAIN cameras :
         (j > i /\ cameras[j].is_active /\ cameras[j].name # None) =>
             _normalize_name(cameras[j].name) # _normalize_name(cameras[i].name)

\* C19: the entry generated from an active camera retains recordings for the
\* camera's retention_days, in the mode fixed for its recording mode:
\* continuous -> all, motion -> motion, events -> active_objects.
C19_RetentionFromMode ==
    \A k \in DOMAIN pure.out : \A i \in DOMAIN pure.args :
        (HasOwnEntry(pure.args, i) /\ pure.args[i].recording_mode \in {"continuous", "motion", "events"}) =>
            LET record == EntryOf(pure.out[k], pure.args, i).record
                mode == pure.args[i].recording_mode
            IN /\ record.enabled
               /\ record.days = pure.args[i].retention_days
               /\ (mode = "continuous" => record.mode = "all")
               /\ (mode = "motion" => record.mode = "motion")
               /\ (mode = "events" => record.mode = "active_objects")

C19_Witness ==
    /\ pure.out # <<>>
    /\ \E i \in DOMAIN pure.args :
         /\ HasOwnEntry(pure.args, i)
         /\ pure.args[i].recording_mode = "motion" /\ pure.args[i].retention_days = DefaultRetentionDays
         /\ EntryOf(pure.out[1], pure.args, i).record.mode = "motion"
         /\ EntryOf(pure.out[1], pure.args, i).record.days = 7

\* The lists that hold the camera dicts of a list in another order.
Reordered(cameras) ==
    {[i \in DOMAIN cameras |-> cameras[f[i]]] : f \in Permutations(DOMAIN cameras)}

\* C40: the document generate_config returns for a list is the document it
\* returns for the same camera dicts in any other order (write_config dumps
\* the entries in the order of the dict, sort_keys=False, so the document is
\* the sequence of the entries).
C40_OrderIndependent ==
    \A k \in DOMAIN pure.out : \A cameras \in Reordered(pure.args) :
        generate_config(cameras) = pure.out[k]

\* C29: the entry generated from an active camera whose recording mode is
\* none ("No recording") does not enable recording: the camera is not given
\* the retention policy of another mode.
C29_NoneDoesNotRecord ==
    \A k \in DOMAIN pure.out : \A i \in DOMAIN pure.args :
        (HasOwnEntry(pure.args, i) /\ pure.args[i].recording_mode = "none") =>
            LET record == EntryOf(pure.out[k], pure.args, i).record
            IN ~(record.enabled /\ record.mode \in {"all", "motion", "active_objects"})

----------------------------------------------------------------------------
(* Specification SpecResolve: SchedulerService._find_applicable_mode called *)
(* on a weekday, a time of day and a list of slots.                         *)

\* The mode of the slot at a position of the list: the positions have
\* different modes, so that the mode tells which slot was taken.
ModeAt(i) == CASE i = 1 -> "continuous" [] i = 2 -> "events" [] i = 3 -> "none" [] OTHER -> "motion"

\* The list of n slots with the given weekdays, start times and end times.
SlotList(n, days, starts, ends) == [i \in 1..n |-> Slot(days[i], starts[i], ends[i], ModeAt(i))]

\* _find_applicable_mode(schedules, current_day, current_time) is called.
ResolveCall ==
    /\ pure.out = <<>>
    /\ pure' = [pure EXCEPT !.out = <<_find_applicable_mode(pure.args.schedules,
                                                           pure.args.current_day,
                                                           pure.args.current_time)>>]
    /\ UNCHANGED <<tk, relayVars, sm, pr, ncalls, crudVars, applyVars>>

InitResolve ==
    /\ active = EmptyDict
    /\ durable = EmptyDict
    /\ sm = [p \in Procs |-> SmIdle]
    /\ pr = [p \in Procs |-> PrIdle]
    /\ ncalls = 0
    /\ store = EmptyDict /\ sess = EmptyDict /\ h = HIdle /\ bg = 0
    /\ ap = [a \in Triggers |-> ApIdle]
    /\ doc = NoDocument /\ applies = 0 /\ restarts = 0
    /\ tk = TkIdle
    /\ \E n \in 0..MaxSlots :
         \E days \in [1..n -> Days], starts \in [1..n -> Times], ends \in [1..n -> Times] :
           \E day \in Days, time \in Times :
             pure = [args |-> [schedules |-> SlotList(n, days, starts, ends),
                               current_day |-> day, current_time |-> time],
                     out |-> <<>>]

NextResolve == ResolveCall

SpecResolve == InitResolve /\ [][NextResolve]_vars

\* A slot matches a weekday and a time: same weekday, and the time within
\* the same-day range (start <= end) or the overnight range (start > end).
SlotMatches(slot, day, time) ==
    /\ slot.day_of_week = day
    /\ IF slot.start_time <= slot.end_time
       THEN slot.start_time <= time /\ time <= slot.end_time
       ELSE time >= slot.start_time \/ time <= slot.end_time

\* The reference scan: the mode of the first matching slot, or no mode.
ReferenceScan(slots, day, time) ==
    LET matching == {i \in DOMAIN slots : SlotMatches(slots[i], day, time)}
    IN IF matching = {} THEN NoMode
       ELSE slots[CHOOSE i \in matching : \A j \in matching : i <= j].mode

\* C20: for every weekday, time and list of slots, _find_applicable_mode
\* returns the mode of the first slot in stored order that matches, or no
\* mode when none matches.
C20_ResolverIsFirstMatch ==
    pure.out # <<>> =>
        pure.out[1] = ReferenceScan(pure.args.schedules, pure.args.current_day, pure.args.current_time)

C20_Witness ==
    /\ pure.out # <<>> /\ Len(pure.args.schedules) = 2
    /\ ~SlotMatches(pure.args.schedules[1], pure.args.current_day, pure.args.current_time)
    /\ pure.args.schedules[2].start_time > pure.args.schedules[2].end_time
    /\ pure.out[1] = pure.args.schedules[2].mode

\* An overnight slot: its start time is after its end time.
Overnight(slot) == slot.start_time > slot.end_time

\* C28: an overnight slot stored for weekday D governs only instants of
\* weekday D, the late span (time >= start) and the early span (time <= end)
\* of D itself, and no instant of the weekday after D: from 00:00 of that
\* day the slot does not match.
C28_OvernightStaysOnItsDay ==
    pure.out # <<>> =>
        LET slots == pure.args.schedules
            day == pure.args.current_day
            time == pure.args.current_time
        IN /\ \A i \in DOMAIN slots :
                (Overnight(slots[i]) /\ pure.out[1] = slots[i].mode) =>
                    /\ day = slots[i].day_of_week
                    /\ (time >= slots[i].start_time \/ time <= slots[i].end_time)
           /\ (Len(slots) = 1 /\ Overnight(slots[1])) =>
                 (pure.out[1] = slots[1].mode <=>
                    /\ day = slots[1].day_of_week
                    /\ (time >= slots[1].start_time \/ time <= slots[1].end_time))

\* The resolver was asked for 00:00 of the weekday after that of an
\* overnight slot, the only slot, and returned no mode.
C28_Witness ==
    /\ pure.out = <<NoMode>> /\ Len(pure.args.schedules) = 1
    /\ Overnight(pure.args.schedules[1])
    /\ pure.args.schedules[1].day_of_week = 0
    /\ pure.args.current_day = 1 /\ pure.args.current_time = 0

----------------------------------------------------------------------------
(* Specification SpecProbe: TestConnection called one probe after another  *)
(* by one caller, with no other relay operation in progress.               *)

\* The caller starts TestConnection with a fresh temporary id.
ProbeStart(p) ==
    /\ pr[p].pc = "idle"
    /\ ncalls < MaxProbes
    /\ ncalls' = ncalls + 1
    /\ \E u \in URIs : pr' = [pr EXCEPT ![p] = test_stream_connection(u, ncalls + 1)]
    /\ UNCHANGED <<pure, tk, relayVars, sm, crudVars, applyVars>>

\* The caller takes the result; the next probe may start.
ProbeTakeResult(p) ==
    /\ pr[p].pc = "done"
    /\ pr' = [pr EXCEPT ![p] = PrIdle]
    /\ UNCHANGED <<pure, tk, relayVars, outsidePr>>

InitProbe ==
    /\ \E names \in {{}, {<<"C">>}} : active = Registered(names) /\ durable = Registered(names)
    /\ sm = [p \in Procs |-> SmIdle]
    /\ pr = [p \in Procs |-> PrIdle]
    /\ ncalls = 0
    /\ NoCrud

NextProbe ==
    \/ ProbeStart("p1")
    \/ probe_register_get("p1")
    \/ probe_register_patch("p1")
    \/ probe_status("p1")
    \/ probe_cleanup_get("p1")
    \/ probe_cleanup_patch("p1")
    \/ probe_return("p1")
    \/ ProbeTakeResult("p1")

SpecProbe == InitProbe /\ [][NextProbe]_vars

----------------------------------------------------------------------------
(* Properties of TestConnection (SpecProbe) *)

\* C1: when TestConnection returns, on whichever exit path, its temporary
\* probe id is not in the relay's durable stream set.
C1_ProbeIdRemovedOnReturn ==
    \A p \in Procs : pr[p].pc = "done" => pr[p].temp_id \notin DOMAIN durable

\* C2: when the relay refuses every request of a TestConnection call, the
\* call returns failure with the network-error reason, which is none of the
\* timeout, no-producers and zero-bytes reasons, and the durable stream set
\* does not hold the temporary id of that call.
C2_UnreachableReported ==
    \A p \in Procs :
        (pr[p].pc = "done" /\ pr[p].refused_only) =>
            /\ pr[p].result = Failure("Error de red")
            /\ pr[p].result.error \notin {"Timeout de conexion", "No se pudo conectar al stream",
                                         "Stream conectado pero sin datos"}
            /\ pr[p].temp_id \notin DOMAIN durable

C2_Witness ==
    \E p \in Procs : pr[p].pc = "done" /\ pr[p].refused_only /\ pr[p].cleanup = "raised"

\* C3: the value TestConnection returns is the one its probe steps decided,
\* whether the cleanup succeeded, was rejected by the relay, raised, or was
\* skipped.
C3_CleanupKeepsResult ==
    \A p \in Procs : pr[p].pc = "done" => pr[p].result = pr[p].verdict

C3_Witness ==
    \E p \in Procs :
        /\ pr[p].pc = "done"
        /\ pr[p].cleanup \in {"raised", "rejected"}
        /\ pr[p].result.success
        /\ pr[p].temp_id \in DOMAIN durable

\* The cases of a TestConnection call that has returned: the catalog it read
\* lists the temporary id with a producer that has received bytes; with no
\* producer; with producers none of which has received a byte; a request of
\* the probe was refused; a request of the probe timed out.
Receiving(call) ==
    /\ call.read /\ call.entry.listed
    /\ \E i \in DOMAIN call.entry.producers : call.entry.producers[i] > 0
NoProducers(call) == call.read /\ call.entry.listed /\ call.entry.producers = <<>>
ZeroBytes(call) ==
    /\ call.read /\ call.entry.listed /\ call.entry.producers # <<>>
    /\ \A i \in DOMAIN call.entry.producers : call.entry.producers[i] = 0
Unreachable(call) == call.raised = "refused"
TimedOut(call) == call.raised = "timeout"

\* C25: TestConnection reports success exactly when the catalog it re-read
\* lists the temporary id with some producer that has received bytes;
\* otherwise it reports failure, with a reason of its own for each of: no
\* producers at all, producers with zero bytes, relay unreachable, timeout
\* (the reason is reported in that case and in no other).
C25_ProbeClassification ==
    \A p \in Procs :
        pr[p].pc = "done" =>
            /\ (pr[p].result.success <=> Receiving(pr[p]))
            /\ (pr[p].result.error = "No se pudo conectar al stream" <=> NoProducers(pr[p]))
            /\ (pr[p].result.error = "Stream conectado pero sin datos" <=> ZeroBytes(pr[p]))
            /\ (pr[p].result.error = "Error de red" <=> Unreachable(pr[p]))
            /\ (pr[p].result.error = "Timeout de conexion" <=> TimedOut(pr[p]))

\* A probe succeeded on a catalog whose second producer has received bytes
\* and whose first has not.
C25_Witness ==
    \E p \in Procs :
        /\ pr[p].pc = "done" /\ pr[p].result.success
        /\ pr[p].entry.producers = <<0, 5>>
        /\ pr[p].result.recv_bytes = 5

----------------------------------------------------------------------------
(* Specification SpecSync: RegisterCamera / UnregisterCamera called one    *)
(* after another by one caller.                                            *)

\* The caller takes the report; the next call may start.
SyncTakeReport(p) ==
    /\ sm[p].pc = "done"
    /\ sm' = [sm EXCEPT ![p] = SmIdle]
    /\ UNCHANGED <<pure, tk, relayVars, outsideSm>>

\* The caller starts RegisterCamera.
SyncRegister(p) ==
    /\ sm[p].pc = "idle"
    /\ ncalls < MaxCalls
    /\ ncalls' = ncalls + 1
    /\ \E name \in SyncNames, m \in URIs, s \in SubURIs :
         sm' = [sm EXCEPT ![p] = register_stream(name, m, s)]
    /\ UNCHANGED <<pure, tk, relayVars, pr, crudVars, applyVars>>

\* The caller starts UnregisterCamera.
SyncUnregister(p) ==
    /\ sm[p].pc = "idle"
    /\ ncalls < MaxCalls
    /\ ncalls' = ncalls + 1
    /\ \E name \in SyncNames : sm' = [sm EXCEPT ![p] = unregister_stream(name)]
    /\ UNCHANGED <<pure, tk, relayVars, pr, crudVars, applyVars>>

InitSync ==
    /\ active = EmptyDict
    /\ durable = EmptyDict
    /\ sm = [p \in Procs |-> SmIdle]
    /\ pr = [p \in Procs |-> PrIdle]
    /\ ncalls = 0
    /\ NoCrud

NextSync ==
    \/ SyncRegister("p1")
    \/ SyncUnregister("p1")
    \/ _add_stream_via_api("p1")
    \/ _persist_stream_config_get("p1")
    \/ _persist_stream_config_patch("p1")
    \/ _remove_stream_via_api("p1")
    \/ unregister_stream_get("p1")
    \/ unregister_stream_patch("p1")
    \/ stream_call_return("p1")
    \/ SyncTakeReport("p1")

SpecSync == InitSync /\ [][NextSync]_vars

----------------------------------------------------------------------------
(* Specification SpecRoundTrip: one caller runs RegisterCamera(name), then  *)
(* UnregisterCamera(name), then UnregisterCamera(name) again, on a relay    *)
(* that may hold the streams of another camera.                             *)

\* The camera of the round trip.
RoundTripName == <<"A", " ", "b">>

\* The relay as a starting call finds it.
RelayNow == [active |-> active, durable |-> durable]

\* The caller starts RegisterCamera.
RoundTripRegister(p) ==
    /\ sm[p].pc = "idle" /\ ncalls = 0
    /\ ncalls' = 1
    /\ \E m \in URIs, s \in SubURIs :
         sm' = [sm EXCEPT ![p] = [register_stream(RoundTripName, m, s) EXCEPT !.before = RelayNow]]
    /\ UNCHANGED <<pure, tk, relayVars, pr, crudVars, applyVars>>

\* The caller takes the report and starts UnregisterCamera (the first, then
\* the second time).
RoundTripUnregister(p) ==
    /\ sm[p].pc = "done" /\ ncalls \in {1, 2}
    /\ ncalls' = ncalls + 1
    /\ sm' = [sm EXCEPT ![p] = [unregister_stream(RoundTripName) EXCEPT
                                    !.answered = sm[p].answered, !.before = RelayNow]]
    /\ UNCHANGED <<pure, tk, relayVars, pr, crudVars, applyVars>>

InitRoundTrip ==
    /\ \E names \in {{}, {<<"C">>}} : active = Registered(names) /\ durable = Registered(names)
    /\ sm = [p \in Procs |-> SmIdle]
    /\ pr = [p \in Procs |-> PrIdle]
    /\ ncalls = 0
    /\ NoCrud

NextRoundTrip ==
    \/ RoundTripRegister("p1")
    \/ RoundTripUnregister("p1")
    \/ _add_stream_via_api("p1")
    \/ _persist_stream_config_get("p1")
    \/ _persist_stream_config_patch("p1")
    \/ _remove_stream_via_api("p1")
    \/ unregister_stream_get("p1")
    \/ unregister_stream_patch("p1")
    \/ stream_call_return("p1")

SpecRoundTrip == InitRoundTrip /\ [][NextRoundTrip]_vars

\* The stream ids of the camera of the round trip.
RoundTripIds == {StreamId(RoundTripName, t) : t \in {"main", "sub"}}

\* C11: with every request answered by a working relay, after RegisterCamera
\* and then UnregisterCamera of a name neither the active catalog nor the
\* durable stream set holds the camera's main or sub id; a second
\* UnregisterCamera leaves the active catalog and the durable set as it
\* found them and reports removed or not_found, never an error, for both.
C11_RegisterUnregister ==
    (sm["p1"].pc = "done" /\ sm["p1"].answered /\ ncalls >= 2) =>
        /\ RoundTripIds \cap DOMAIN active = {}
        /\ RoundTripIds \cap DOMAIN durable = {}
        /\ (ncalls = 3 =>
              /\ RelayNow = sm["p1"].before
              /\ \A t \in {"main", "sub"} : sm["p1"].result[t] \in {"removed", "not_found"})

C11_Witness ==
    /\ sm["p1"].pc = "done" /\ sm["p1"].answered /\ ncalls = 3
    /\ sm["p1"].result["main"] = "not_found"
    /\ DOMAIN durable # {}

\* C35: a RegisterCamera or UnregisterCamera call leaves the durable entry
\* of every stream id other than the camera's own as the call found it,
\* whatever the relay answered, a configuration read answered with a
\* non-200 status included.
C35_OtherEntriesKept ==
    sm["p1"].pc = "done" =>
        \A id \in (DOMAIN sm["p1"].before.durable) \ RoundTripIds :
            id \in DOMAIN durable /\ durable[id] = sm["p1"].before.durable[id]

----------------------------------------------------------------------------
(* Specification SpecRace: two request handlers run RegisterCamera at the   *)
(* same time, each for a camera of its own; their requests to the relay     *)
(* interleave at every await.                                               *)

\* The camera each caller registers.
RaceName(p) == IF p = "p1" THEN <<"A", " ", "b">> ELSE <<"C">>

\* A caller starts RegisterCamera for its camera.
RaceRegister(p) ==
    /\ sm[p].pc = "idle"
    /\ sm' = [sm EXCEPT ![p] = register_stream(RaceName(p), RtspUrl, None)]
    /\ UNCHANGED <<pure, tk, relayVars, pr, ncalls, crudVars, applyVars>>

InitRace ==
    /\ active = EmptyDict
    /\ durable = EmptyDict
    /\ sm = [p \in Procs |-> SmIdle]
    /\ pr = [p \in Procs |-> PrIdle]
    /\ ncalls = 0
    /\ NoCrud

NextRace ==
    \E p \in Procs :
        \/ RaceRegister(p)
        \/ _add_stream_via_api(p)
        \/ _persist_stream_config_get(p)
        \/ _persist_stream_config_patch(p)
        \/ stream_call_return(p)

SpecRace == InitRace /\ [][NextRace]_vars

\* C30: when RegisterCamera calls for two different names have run at the
\* same time against a relay that answered every request, after both have
\* returned the durable stream set holds the main and the sub entry of both
\* cameras.
C30_ConcurrentRegisterKeepsAll ==
    (\A p \in Procs : sm[p].op = "register" /\ sm[p].pc = "done" /\ sm[p].answered) =>
        \A p \in Procs : \A t \in {"main", "sub"} :
            StreamId(RaceName(p), t) \in DOMAIN durable

----------------------------------------------------------------------------
(* Specification SpecOverlap: TestConnection runs while another request    *)
(* handler runs TestConnection, RegisterCamera or UnregisterCamera; their  *)
(* requests to the relay interleave at every await.                        *)

\* A caller starts TestConnection with a fresh temporary id.
OverlapProbe(p) ==
    /\ pr[p].pc = "idle" /\ sm[p].pc = "idle"
    /\ ncalls < MaxProbes
    /\ ncalls' = ncalls + 1
    /\ pr' = [pr EXCEPT ![p] = test_stream_connection(RtspUrl, ncalls + 1)]
    /\ UNCHANGED <<pure, tk, relayVars, sm, crudVars, applyVars>>

\* The second caller starts RegisterCamera or UnregisterCamera for the
\* camera "C" instead.
OverlapRegister ==
    /\ pr["p2"].pc = "idle" /\ sm["p2"].pc = "idle"
    /\ sm' = [sm EXCEPT !["p2"] = register_stream(<<"C">>, RtspUrl, None)]
    /\ UNCHANGED <<pure, tk, relayVars, pr, ncalls, crudVars, applyVars>>

OverlapUnregister ==
    /\ pr["p2"].pc = "idle" /\ sm["p2"].pc = "idle"
    /\ sm' = [sm EXCEPT !["p2"] = unregister_stream(<<"C">>)]
    /\ UNCHANGED <<pure, tk, relayVars, pr, ncalls, crudVars, applyVars>>

InitOverlap ==
    /\ active = Registered({<<"C">>})
    /\ durable = Registered({<<"C">>})
    /\ sm = [p \in Procs |-> SmIdle]
    /\ pr = [p \in Procs |-> PrIdle]
    /\ ncalls = 0
    /\ NoCrud

NextOverlap ==
    \/ \E p \in Procs :
         \/ OverlapProbe(p)
         \/ probe_register_get(p)
         \/ probe_register_patch(p)
         \/ probe_status(p)
         \/ probe_cleanup_get(p)
         \/ probe_cleanup_patch(p)
         \/ probe_return(p)
    \/ OverlapRegister
    \/ OverlapUnregister
    \/ _add_stream_via_api("p2")
    \/ _persist_stream_config_get("p2")
    \/ _persist_stream_config_patch("p2")
    \/ _remove_stream_via_api("p2")
    \/ unregister_stream_get("p2")
    \/ unregister_stream_patch("p2")
    \/ stream_call_return("p2")

SpecOverlap == InitOverlap /\ [][NextOverlap]_vars

\* Every call that was started has returned, a TestConnection among them,
\* and the relay answered every request of every call with 200.
OverlapOver ==
    /\ pr["p1"].pc = "done"
    /\ pr["p2"].pc = "done" \/ sm["p2"].pc = "done"
    /\ \A p \in Procs : pr[p].answered /\ sm[p].answered

\* C31: after a TestConnection and the TestConnection, RegisterCamera or
\* UnregisterCamera that overlapped it have returned, with a relay that
\* answered every request, the durable stream set holds no temporary probe
\* id.
C31_NoProbeIdAfterOverlap ==
    OverlapOver => \A n \in 1..MaxProbes : TempId(n) \notin DOMAIN durable

----------------------------------------------------------------------------
(* Properties of RegisterCamera / UnregisterCamera (SpecSync) *)

\* The four steps of RegisterCamera.
RegisterSteps == {<<"hot", "main">>, <<"hot", "sub">>, <<"durable", "main">>, <<"durable", "sub">>}

\* C8: a RegisterCamera call that has returned attempted all four steps
\* (hot-reload of main and sub, durable write of main and sub), whichever of
\* them failed, and returned a report with a status for both targets.
C8_AllStepsAttempted ==
    \A p \in Procs :
        (sm[p].op = "register" /\ sm[p].pc = "done") =>
            /\ sm[p].attempted = RegisterSteps
            /\ \A t \in {"main", "sub"} : sm[p].result[t] \in {"active", "failed"}

C8_Witness ==
    \E p \in Procs :
        /\ sm[p].op = "register" /\ sm[p].pc = "done"
        /\ sm[p].hot["main"] = "refused" /\ sm[p].hot["sub"] = "ok"
        /\ ~sm[p].persisted["main"] /\ sm[p].persisted["sub"]

\* C9: in the report of RegisterCamera, a target whose hot-reload succeeded
\* and whose durable write failed has a status other than the one reported
\* when both succeeded.
C9_ReportSeparatesEffects ==
    \A p \in Procs : \A t \in {"main", "sub"} :
        (sm[p].op = "register" /\ sm[p].pc = "done"
            /\ sm[p].hot[t] = "ok" /\ ~sm[p].persisted[t]) =>
                sm[p].result[t] # RegisterStatus(TRUE)

\* C10: when the hot-reload request of a target timed out or was refused,
\* RegisterCamera / UnregisterCamera report that target with a status that
\* is none of those reported when the relay answered (active, removed,
\* not_found).
C10_NetworkErrorDistinct ==
    \A p \in Procs : \A t \in {"main", "sub"} :
        (sm[p].pc = "done" /\ sm[p].hot[t] \in {"timeout", "refused"}) =>
            sm[p].result[t] \notin {"active", "removed", "not_found"}

\* The schemes the relay takes as they are: pipeline strings that carry
\* their tag, and the relay's native transport.
PassthroughSchemes == {"exec:", "ffmpeg:", "rtsp://", "rtsps://"}

\* The reference classification of a URL for a target.
ReferenceSource(url, tier) ==
    IF url[1] \in PassthroughSchemes THEN url ELSE _get_optimized_ffmpeg_cmd(url, tier)

\* C27: the source RegisterCamera registers for a target is the reference
\* classification of the target's URL: the URL unchanged when its scheme is
\* passthrough-capable, otherwise the transcode pipeline of the target's
\* tier, so that for the same URL of another scheme the source of the sub
\* target differs from the source of the main target.
C27_SourceByTier ==
    \A p \in Procs :
        sm[p].op = "register" =>
            /\ \A t \in {"main", "sub"} :
                  /\ sm[p].url[t] = ReferenceSource(sm[p].raw[t], t)
                  /\ (sm[p].hot[t] = "ok" /\ sm[p].pc = "done" =>
                        active[StreamId(sm[p].name, t)] = ReferenceSource(sm[p].raw[t], t))
            /\ (sm[p].raw["main"] = sm[p].raw["sub"]
                   /\ sm[p].raw["main"][1] \notin PassthroughSchemes =>
                      sm[p].url["main"] # sm[p].url["sub"])

\* C13: after a RegisterCamera whose hot-reload calls and durable writes all
\* succeeded, the durable stream set maps the camera's main and sub ids to
\* the same targets as the active catalog (so that a relay restarted from
\* the durable set alone has both).
C13_DurableMatchesActive ==
    \A p \in Procs :
        (sm[p].op = "register" /\ sm[p].pc = "done"
            /\ \A t \in {"main", "sub"} : sm[p].hot[t] = "ok" /\ sm[p].persisted[t]) =>
                \A t \in {"main", "sub"} :
                    LET id == StreamId(sm[p].name, t)
                    IN id \in DOMAIN durable /\ id \in DOMAIN active /\ durable[id] = active[id]

----------------------------------------------------------------------------
(* Properties of the configuration sync (SpecCrud) *)

\* C14: at every instant the configuration file holds a complete document
\* (the previous or the new one), or does not exist yet; no reader can find
\* it empty or partially written.
C14_NoPartialDocument == doc.written \in {"never", "complete"}

\* C15: when the write of a sync succeeded and its restart request failed
\* (error status, connection refused, timeout), the sync's result stays ok
\* with the restart reported as warning, unavailable or error, and the file
\* holds the complete document the sync generated.
C15_RestartFailureKeepsDocument ==
    \A a \in Triggers :
        (ap[a].pc = "done" /\ ap[a].wrote = "ok" /\ ap[a].posted \in Outcomes \ {"ok"}) =>
            /\ ap[a].status = "ok"
            /\ ap[a].restart \in {"warning", "unavailable", "error"}
            /\ doc = generate_config(ap[a].cameras)

C15_Witness ==
    /\ ap["crud"].pc = "done" /\ ap["crud"].wrote = "ok" /\ ap["crud"].posted = "refused"
    /\ ap["crud"].restart = "unavailable"
    /\ doc.written = "complete" /\ doc.cameras # <<>>

\* C16: a sync whose write failed (before or after the file was opened)
\* returns an error result and sends no restart request.
C16_WriteFailureNoRestart ==
    \A a \in Triggers :
        (ap[a].pc = "done" /\ ap[a].wrote \in {"failed_before", "failed_during"}) =>
            /\ ap[a].status = "error"
            /\ ap[a].posted = "none" /\ ap[a].restart = "none"

C16_Witness ==
    /\ ap["crud"].pc = "done" /\ ap["crud"].wrote = "failed_during"
    /\ ap["crud"].status = "error" /\ applies = 1 /\ restarts = 0

----------------------------------------------------------------------------
(* Properties of the schedule check: what a check changes (SpecTick) *)

\* The cameras a check may change: active, with at least one slot, and with
\* a slot that matches the clock reading of the check.
Governed(camera, now) ==
    /\ camera.is_active
    /\ camera.schedules # <<>>
    /\ \E i \in DOMAIN camera.schedules :
          SlotMatches(camera.schedules[i], now.day, now.time)

\* Two rows agree on every field but those of F.
SameBut(row, other, F) == \A f \in (DOMAIN row) \ F : row[f] = other[f]

\* C21 (as claimed): a check changes the stored recording mode of a camera
\* only if the camera is active, has a slot and some slot matches now; the
\* mode of every other camera is left as it was, and no field other than the
\* recording mode is changed for any camera.
C21_TickChangesOnlyMode ==
    tk.ticks > 0 =>
        /\ DOMAIN store = DOMAIN tk.before
        /\ \A id \in DOMAIN store :
              /\ SameBut(store[id], tk.before[id], {"recording_mode"})
              /\ (store[id].recording_mode # tk.before[id].recording_mode
                    => Governed(tk.before[id], tk.now))

\* C21 (amended): the same, where the cameras whose recording mode the check
\* changed also have their updated_at set anew, and no other camera has; no
\* field other than these two is changed for any camera.
C21_TickChangesModeAndStamp ==
    tk.ticks > 0 =>
        /\ DOMAIN store = DOMAIN tk.before
        /\ \A id \in DOMAIN store :
              /\ SameBut(store[id], tk.before[id], {"recording_mode", "updated_at"})
              /\ (store[id].recording_mode # tk.before[id].recording_mode
                    => Governed(tk.before[id], tk.now))
              /\ (store[id].updated_at # tk.before[id].updated_at
                    <=> store[id].recording_mode # tk.before[id].recording_mode)

\* A check changed the first camera and left the second, which is inactive
\* and has a slot that matches now, as it was.
C21_Witness ==
    /\ TickOver /\ tk.ended = "returned"
    /\ store[1].recording_mode # tk.before[1].recording_mode
    /\ ~store[2].is_active
    /\ \E i \in DOMAIN store[2].schedules :
          /\ SlotMatches(store[2].schedules[i], tk.now.day, tk.now.time)
          /\ store[2].schedules[i].mode # store[2].recording_mode
    /\ store[2] = tk.before[2]

\* For every camera of the table that a check at now may change, the mode
\* of the first matching slot is the stored mode.
ResolvedAsStored(table, now) ==
    \A id \in DOMAIN table :
        Governed(table[id], now) =>
            ReferenceScan(table[id].schedules, now.day, now.time) = table[id].recording_mode

\* The check in progress, or the last one, has written nothing to the store
\* and has started no sync and no restart.
TickDidNothing ==
    /\ store = tk.before
    /\ applies = tk.applies_before
    /\ restarts = tk.restarts_before

\* C22: a check in which the mode resolved for every camera equals its
\* stored mode writes nothing to the store and starts no sync; in particular
\* a check at the same clock reading directly after a check that returned
\* changes nothing and causes no restart.
C22_TickIdempotent ==
    tk.ticks > 0 =>
        /\ (ResolvedAsStored(tk.before, tk.now) => TickDidNothing)
        /\ ((tk.prev.ended = "returned" /\ tk.prev.now = tk.now) => TickDidNothing)

\* The second check has ended, at the clock reading of the first, which
\* changed a camera and started a sync.
C22_Witness ==
    /\ TickOver /\ tk.ticks = 2 /\ tk.ended = "returned"
    /\ tk.prev.ended = "returned" /\ tk.prev.now = tk.now
    /\ applies = 1 /\ tk.applies_before = 1
    /\ \E id \in DOMAIN store : store[id].updated_at = 1

\* C38: a check that failed part-way (the select, the resolution of a
\* camera or the commit raised) has changed no camera's stored mode, reports
\* 0 updated cameras and has started no sync.
C38_FailedTickChangesNothing ==
    (TickOver /\ tk.ended = "raised") =>
        /\ store = tk.before
        /\ tk.result = 0
        /\ applies = tk.applies_before /\ restarts = tk.restarts_before

\* The commit of a check that had changed two cameras in its session
\* raised.
C38_Witness ==
    /\ TickOver /\ tk.ended = "raised"
    /\ tk.updated_count = 2
    /\ \A id \in DOMAIN store : tk.session[id].recording_mode # store[id].recording_mode
    /\ store = tk.before /\ tk.result = 0

\* C23: at most one check runs at any time: a check starts only when the
\* check before it has ended (returned or logged its exception) and the sync
\* it started has returned too.
C23_SingleFlight ==
    [][(tk'.ticks # tk.ticks) =>
          /\ tk'.ticks = tk.ticks + 1
          /\ (tk.ticks > 0 => tk.ended \in {"returned", "raised"})
          /\ ap["tick"].pc \in {"idle", "finished"}]_vars

\* The second check has started after a first one whose sync restarted the
\* detection engine.
C23_Witness ==
    /\ tk.ticks = 2 /\ tk.pc = "select"
    /\ tk.prev.ended = "returned"
    /\ applies = 1 /\ restarts = 1
    /\ ap["tick"].pc = "finished"

----------------------------------------------------------------------------
(* Specification SpecUri: one request to the cameras router, a connection  *)
(* test or a create, with a stream URL of any scheme.                      *)

FtpUrl == <<"ftp://", "cam">>

\* The stream_url of a test request: empty, of a valid scheme (also written
\* in capitals), an ffmpeg source, of a scheme nothing supports.
TestURIs == {None, RtspUrl, HttpUrl, <<"RTSP://", "cam">>, <<"ffmpeg:", "cam">>, FtpUrl}

\* The bodies of the create requests: main and sub URL of any scheme.
UriInputs ==
    {Camera(<<"C">>, main, sub, TRUE, "motion") :
        main \in {RtspUrl, HttpUrl, FtpUrl}, sub \in {None, FtpUrl}}

InitUri ==
    /\ active = EmptyDict
    /\ durable = EmptyDict
    /\ sm = [p \in Procs |-> SmIdle]
    /\ pr = [p \in Procs |-> PrIdle]
    /\ ncalls = 0
    /\ NoCrud

NextUri ==
    \/ \E stream_url \in TestURIs : test_camera_connection(stream_url)
    \/ probe_register_get("p1")
    \/ probe_register_patch("p1")
    \/ probe_status("p1")
    \/ probe_cleanup_get("p1")
    \/ probe_cleanup_patch("p1")
    \/ probe_return("p1")
    \/ test_camera_connection_return
    \/ \E data \in UriInputs : create_camera(data)
    \/ _add_stream_via_api("p1")
    \/ _persist_stream_config_get("p1")
    \/ _persist_stream_config_patch("p1")
    \/ stream_call_return("p1")
    \/ create_camera_return
    \/ get_db_exit
    \/ run_background_task
    \/ sync_all_to_frigate("crud")
    \/ sync_cameras_write("crud")
    \/ write_text("crud")
    \/ restart_frigate("crud")
    \/ background_task_done

SpecUri == InitUri /\ [][NextUri]_vars

\* The schemes some part of the backend handles: those the connection test
\* admits and those the URL conversion knows.
SupportedSchemes == {"rtsp://", "rtsps://", "http://", "https://", "exec:", "ffmpeg:"}

\* A URL of a scheme that is not supported.
Unsupported(url) == url # None /\ LowerScheme(url[1]) \notin SupportedSchemes

\* The URLs of the camera a create request is registering.
RegisteringUrls ==
    {sess[h.id].main_stream_url} \cup
        (IF sess[h.id].sub_stream_url # None THEN {sess[h.id].sub_stream_url} ELSE {})

----------------------------------------------------------------------------
(* Specification SpecStatus: StatusProbe (check_stream_status) called for a *)
(* camera name, one call after another, with no other operation running.    *)

\* check_stream_status(name) is called: one GET /api/streams, which ends in
\* one of the ways a read can end; an answer lists the sub id of the camera,
\* with whatever producers it has, when the relay holds it.
StatusCall ==
    /\ Len(pure.out) < MaxProbes
    /\ \E o \in ReadOutcomes :
         \E entry \in (IF o = "ok" /\ StreamId(pure.args.name, "sub") \in DOMAIN active
                        THEN CatalogEntries \ {NotListed} ELSE {NotListed}) :
           pure' = [pure EXCEPT !.out = Append(@, [outcome |-> o, entry |-> entry,
                                                   result |-> check_stream_status(o, entry)])]
    /\ UNCHANGED <<tk, relayVars, sm, pr, ncalls, crudVars, applyVars>>

InitStatus ==
    /\ \E names \in {{}, {<<"C">>}, {<<"A", " ", "b">>}} :
         active = Registered(names) /\ durable = Registered(names)
    /\ sm = [p \in Procs |-> SmIdle]
    /\ pr = [p \in Procs |-> PrIdle]
    /\ ncalls = 0
    /\ store = EmptyDict
    /\ sess = EmptyDict
    /\ h = HIdle
    /\ bg = 0
    /\ ap = [a \in Triggers |-> ApIdle]
    /\ doc = NoDocument
    /\ applies = 0
    /\ restarts = 0
    /\ tk = TkIdle
    /\ \E name \in CameraNames : pure = [args |-> [name |-> name], out |-> <<>>]

NextStatus == StatusCall

SpecStatus == InitStatus /\ [][NextStatus]_vars

\* C26: StatusProbe returns online when a producer of the camera's stream
\* has received bytes, connecting when there are producers and none has,
\* offline when there are no producers or the id is not in the catalog, and
\* unknown when the relay is unreachable or does not answer with the
\* catalog; it returns one of the four for every state of the relay and
\* never raises.
C26_StatusClassification ==
    \A i \in DOMAIN pure.out :
        LET call == pure.out[i]
            listed == call.outcome = "ok" /\ call.entry.listed
            receiving == \E k \in DOMAIN call.entry.producers : call.entry.producers[k] > 0
        IN /\ ~call.result.raised
           /\ call.result.status \in {"online", "connecting", "offline", "unknown"}
           /\ (call.result.status = "online" <=> listed /\ receiving)
           /\ (call.result.status = "connecting" <=>
                  listed /\ call.entry.producers # <<>> /\ ~receiving)
           /\ (call.result.status = "offline" <=>
                  call.outcome = "ok" /\ (~call.entry.listed \/ call.entry.producers = <<>>))
           /\ (call.result.status = "unknown" <=> call.outcome # "ok")

----------------------------------------------------------------------------
(* Specification SpecApplies: a bulk delete request whose background sync  *)
(* runs while the scheduler, whose one check starts once the request's    *)
(* transaction is closed, checks the schedules and runs its own sync.      *)
(* write_config has no await: one sync does not start writing while the    *)
(* other is in the middle of its write.                                    *)

\* A camera with a slot that covers the whole of weekday 0, and one with no
\* schedule.
AppliesStore ==
    <<[Camera(<<"A", " ", "b">>, RtspUrl, None, TRUE, "motion") EXCEPT
          !.schedules = <<Slot(0, 0, MaxTime, "continuous")>>],
      Camera(<<"C">>, RtspUrl, None, TRUE, "events")>>

InitApplies ==
    /\ store = AppliesStore /\ sess = AppliesStore
    /\ active = Registered({AppliesStore[i].name : i \in DOMAIN AppliesStore})
    /\ durable = Registered({AppliesStore[i].name : i \in DOMAIN AppliesStore})
    /\ doc = generate_config(Rows(AppliesStore))
    /\ sm = [p \in Procs |-> SmIdle]
    /\ pr = [p \in Procs |-> PrIdle]
    /\ ncalls = 0
    /\ h = HIdle
    /\ bg = 0
    /\ ap = [a \in Triggers |-> ApIdle]
    /\ applies = 0
    /\ restarts = 0
    /\ tk = TkIdle
    /\ pure = PureIdle

NextApplies ==
    \/ bulk_delete_cameras(<<2>>)
    \/ bulk_delete_cameras_next
    \/ _remove_stream_via_api("p1")
    \/ unregister_stream_get("p1")
    \/ unregister_stream_patch("p1")
    \/ stream_call_return("p1")
    \/ bulk_delete_cameras_unregistered
    \/ bulk_delete_cameras_return
    \/ get_db_exit
    \/ run_background_task
    \/ background_task_done
    \/ h.closed /\ tk.ticks = 0 /\ periodic_schedule_check
    \/ check_and_apply_schedules_select
    \/ check_and_apply_schedules_commit
    \/ check_and_apply_schedules_callback
    \/ check_and_apply_schedules_synced
    \/ check_and_apply_schedules_return
    \/ \E a \in {"crud", "tick"} :
         \/ sync_all_to_frigate(a)
         \/ (\A b \in Triggers : ap[b].pc # "writing") /\ sync_cameras_write(a)
         \/ write_text(a)
         \/ restart_frigate(a)

SpecApplies == InitApplies /\ [][NextApplies]_vars

\* The background sync of the request and the sync of a schedule check have
\* both finished, each having written its document, and nothing is running.
BothApplied ==
    /\ RequestOver /\ TickOver
    /\ \A a \in {"crud", "tick"} : ap[a].pc = "finished" /\ ap[a].status = "ok"

\* C32: after the background sync of a request and the sync of a schedule
\* check have both finished, the document on disk is the one generated from
\* the camera store as it is now: the document of an older snapshot has not
\* overwritten that of a newer one.
C32_LatestSnapshotWins ==
    BothApplied => doc = generate_config(Rows(store))

----------------------------------------------------------------------------
(* Specification SpecTickLive: the scheduler's loop going round for ever,   *)
(* with no request, over cameras whose one slot sets the mode once. The     *)
(* first check can fail at any step; from the second check on no step       *)
(* fails.                                                                   *)

\* Two cameras, each with no schedule or with one slot of weekday 0.
LiveStores ==
    {<<[Camera(<<"A", " ", "b">>, RtspUrl, None, TRUE, "motion") EXCEPT !.schedules = s1],
       [Camera(<<"C">>, RtspUrl, None, is_active, "motion") EXCEPT !.schedules = s2]>> :
        s1 \in {<<>>, <<Slot(0, 0, 1, "continuous")>>},
        s2 \in {<<>>, <<Slot(0, 1, MaxTime, "events")>>}, is_active \in BOOLEAN}

InitTickLive ==
    /\ \E table \in LiveStores :
         /\ store = table /\ sess = table
         /\ active = Registered({table[i].name : i \in DOMAIN table})
         /\ durable = Registered({table[i].name : i \in DOMAIN table})
         /\ doc = generate_config(Rows(table))
    /\ sm = [p \in Procs |-> SmIdle]
    /\ pr = [p \in Procs |-> PrIdle]
    /\ ncalls = 0
    /\ h = HIdle
    /\ bg = 0
    /\ ap = [a \in Triggers |-> ApIdle]
    /\ applies = 0
    /\ restarts = 0
    /\ tk = TkIdle
    /\ pure = PureIdle

\* periodic_schedule_check, lines 183-189, once MaxTicks checks have been
\* counted: the loop goes on, the count stays.
periodic_schedule_check_again ==
    /\ LoopResumes(tk.pc) /\ tk.ticks = MaxTicks
    /\ \E day \in Days, time \in Times :
         tk' = [TkIdle EXCEPT !.pc = "select", !.now = [day |-> day, time |-> time],
                              !.ticks = MaxTicks, !.before = store,
                              !.applies_before = applies, !.restarts_before = restarts,
                              !.prev = [now |-> tk.now, ended |-> tk.ended]]
    /\ UNCHANGED <<pure, relayVars, sm, pr, ncalls, crudVars, applyVars>>

\* A step in which the check or its sync fails: the select or the commit
\* raises, the sync's read raises, the document is not written.
FailedStep ==
    \/ tk'.ended = "raised" /\ tk.ended # "raised"
    \/ ap'["tick"].status = "error" /\ ap["tick"].status # "error"

NextTickLive ==
    /\ \/ NextTick
       \/ periodic_schedule_check_again
    /\ tk.ticks > 1 => ~FailedStep

SpecTickLive == InitTickLive /\ [][NextTickLive]_vars /\ WF_vars(NextTickLive)

\* The first check changed the mode of a camera in the store and its sync
\* failed: the document was not written.
SyncFailedAfterChange ==
    /\ TickOver /\ tk.ticks = 1
    /\ ChangedIds(tk.before, store) # {}
    /\ ap["tick"].status = "error"

\* C34: when a check has changed a camera's stored mode and its sync has
\* failed, and the checks go on with no further failure and no request, the
\* document is eventually the one generated from the store.
C34_FailedSyncRetried ==
    SyncFailedAfterChange ~> (doc = generate_config(Rows(store)))

\* The first check failed: it raised, or its sync failed.
FirstCheckFailed ==
    tk.ticks = 1 /\ (tk.ended = "raised" \/ ap["tick"].status = "error")

\* C39: a check that fails, or whose sync fails, does not stop the loop:
\* whatever failed in a check, the next check is started.
C39_LoopGoesOn ==
    FirstCheckFailed ~> (tk.ticks > 1)

\* The second check has started after the commit of the first one raised.
C39_Witness ==
    /\ tk.pc = "select" /\ tk.ticks = 2
    /\ tk.prev.ended = "raised"
    /\ ChangedIds(store, Scheduled(store, tk.prev.now)) # {}

----------------------------------------------------------------------------
(* Specification SpecEntry: the application starts on a store of two        *)
(* cameras and syncs the detection engine's configuration; once it is up,   *)
(* the manual sync endpoint is called.                                      *)

\* Two cameras of every mode, active or not, with the default or another
\* retention.
EntryStore(m1, d1, a1, m2, d2, a2) ==
    <<[Camera(<<"A", " ", "b">>, RtspUrl, None, a1, m1) EXCEPT !.retention_days = d1],
      [Camera(<<"C">>, RtspUrl, None, a2, m2) EXCEPT !.retention_days = d2]>>

InitEntry ==
    /\ \E m1 \in RecordingModes, m2 \in RecordingModes :
         \E d1 \in {DefaultRetentionDays, 30}, d2 \in {DefaultRetentionDays, 30} :
           \E a1 \in BOOLEAN, a2 \in BOOLEAN :
             /\ store = EntryStore(m1, d1, a1, m2, d2, a2)
             /\ sess = EntryStore(m1, d1, a1, m2, d2, a2)
    /\ active = Registered({<<"A", " ", "b">>, <<"C">>})
    /\ durable = Registered({<<"A", " ", "b">>, <<"C">>})
    /\ doc = NoDocument
    /\ sm = [p \in Procs |-> SmIdle]
    /\ pr = [p \in Procs |-> PrIdle]
    /\ ncalls = 0
    /\ h = HIdle
    /\ bg = 0
    /\ ap = [a \in Triggers |-> ApIdle]
    /\ applies = 0
    /\ restarts = 0
    /\ tk = TkIdle
    /\ pure = PureIdle

NextEntry ==
    \/ sync_cameras_to_frigate
    \/ ap["startup"].pc = "done" /\ sync_frigate_cameras
    \/ \E a \in {"startup", "sync"} :
         \/ sync_cameras_write(a)
         \/ write_text(a)
         \/ restart_frigate(a)

SpecEntry == InitEntry /\ [][NextEntry]_vars

\* C36: after a sync has written the document, whichever entry point
\* started it, the document is the one generated from the cameras' records
\* in the store: every active camera's entry has the retention mode and the
\* retention days of its record, not the defaults.
C36_StoredRetentionApplied ==
    /\ (ap["startup"].pc = "done" /\ ap["startup"].status = "ok"
          /\ ap["sync"].pc \in {"idle", "write"}) => doc = generate_config(Rows(store))
    /\ (ap["sync"].pc = "done" /\ ap["sync"].status = "ok") => doc = generate_config(Rows(store))

====
